---------------------------- MODULE Spec2Model ----------------------------
(***************************************************************************)
(* A model of torut's Tor control protocol client: the reply framer        *)
(* (Conn), the unauthenticated connection (PROTOCOLINFO, AUTHENTICATE and  *)
(* the promotion to an authenticated connection) and the authenticated     *)
(* connection (commands and the dispatch of asynchronous events).          *)
(*                                                                         *)
(* Text and binary data are sequences of bytes (0..255); every string      *)
(* literal of the source is written as the sequence of its ASCII codes,    *)
(* with the literal in the comment next to it.                             *)
(***************************************************************************)
EXTENDS Integers, Sequences, FiniteSets, TLC

(***************************************************************************)
(* Bounds of the model.                                                    *)
(***************************************************************************)
\* the server writes at most this many chunks to one stream
MaxSent == 2
\* at most this many calls that touch the transport are made on one stream
MaxCalls == 2

(***************************************************************************)
(* Option and Result values.  None is the empty sequence and Some(v) the   *)
(* one-element sequence, so that any two of them can be compared.          *)
(***************************************************************************)
None == <<>>
Some(v) == <<v>>


(***************************************************************************)
(* Byte helpers (u8 methods of the Rust standard library).                 *)
(***************************************************************************)
is_ascii(b) == b < 128
is_ascii_digit(b) == b >= 48 /\ b <= 57
is_ascii_uppercase(b) == b >= 65 /\ b <= 90
is_ascii_alphanumeric(b) ==
    is_ascii_digit(b) \/ is_ascii_uppercase(b) \/ (b >= 97 /\ b <= 122)
is_ascii_punctuation(b) ==
    \/ (b >= 33 /\ b <= 47) \/ (b >= 58 /\ b <= 64)
    \/ (b >= 91 /\ b <= 96) \/ (b >= 123 /\ b <= 126)

StartsWith(s, p) == Len(s) >= Len(p) /\ SubSeq(s, 1, Len(p)) = p

RECURSIVE Concat(_)
\* the concatenation of a sequence of byte sequences
Concat(ss) == IF ss = <<>> THEN <<>> ELSE Head(ss) \o Concat(Tail(ss))

Repeat(b, n) == [i \in 1..n |-> b]

(***************************************************************************)
(* hex::encode_upper and hex::decode_to_slice.                             *)
(***************************************************************************)
\* "0123456789ABCDEF"
HEX_CHARS_UPPER == <<48,49,50,51,52,53,54,55,56,57,65,66,67,68,69,70>>

hex_encode_upper(data) ==
    [i \in 1..(2 * Len(data)) |->
        IF i % 2 = 1 THEN HEX_CHARS_UPPER[(data[(i + 1) \div 2] \div 16) + 1]
                     ELSE HEX_CHARS_UPPER[(data[i \div 2] % 16) + 1]]

\* the value of one hex digit, -1 when the byte is no hex digit
hex_val(c) ==
    IF c >= 48 /\ c <= 57 THEN c - 48
    ELSE IF c >= 65 /\ c <= 70 THEN c - 65 + 10
    ELSE IF c >= 97 /\ c <= 102 THEN c - 97 + 10
    ELSE -1

\* decode_to_slice(text, out) with out of out_len bytes: None on an error
\* (wrong length or a byte that is no hex digit), Some(bytes) otherwise
hex_decode_to_slice(text, out_len) ==
    IF Len(text) # 2 * out_len THEN None
    ELSE IF \E i \in 1..Len(text) : hex_val(text[i]) = -1 THEN None
    ELSE Some([i \in 1..out_len |->
                 hex_val(text[2 * i - 1]) * 16 + hex_val(text[2 * i])])

(***************************************************************************)
(* quote_string (utils/quoted.rs).                                         *)
(***************************************************************************)
\* the octal digits of b, most significant first, without leading zeros;
\* the zero byte gives the single digit 0
octal_digits(b) ==
    IF b = 0 THEN <<48>>
    ELSE IF b < 8 THEN <<48 + b>>
    ELSE IF b < 64 THEN <<48 + (b \div 8), 48 + (b % 8)>>
    ELSE <<48 + (b \div 64), 48 + ((b \div 8) % 8), 48 + (b % 8)>>

quote_byte(b) ==
    IF b = 10 THEN <<92, 110>>           \* \n
    ELSE IF b = 13 THEN <<92, 114>>      \* \r
    ELSE IF b = 9 THEN <<92, 116>>       \* \t
    ELSE IF b = 92 THEN <<92, 92>>       \* \\
    ELSE IF b = 34 THEN <<92, 34>>       \* \"
    ELSE IF is_ascii_alphanumeric(b) \/ is_ascii_punctuation(b) THEN <<b>>
    ELSE <<92>> \o octal_digits(b)

quote_string(text) ==
    <<34>> \o Concat([i \in 1..Len(text) |-> quote_byte(text[i])]) \o <<34>>

(***************************************************************************)
(* Conn::receive_data (control/conn.rs): the reply framer.                 *)
(*                                                                         *)
(* s is the bytes the stream holds.  The source reads one byte per round   *)
(* of its loop and keeps the framer state (0: code digits, 1: mode         *)
(* character, 2: final line, 3: mid line, 4: data line), the code of the   *)
(* first line, the lines so far and current_line_buffer.  The model makes  *)
(* one round per line (receive_line, receive_mode, receive_payload and     *)
(* receive_line_end): p is the index of the first byte of the line, and    *)
(* for each part of the line (code, mode character, payload) it finds the  *)
(* first byte at which the loop leaves the part.  At every byte the loop   *)
(* tests, in this order: the ceiling on bytes read, the presence of the    *)
(* byte, that the byte is ASCII, and then what the framer state asks.      *)
(* The result is                                                           *)
(*   [st |-> "ok", code, lines, used]  a reply, `used` bytes consumed;     *)
(*   [st |-> "err", err, used]         an error after `used` bytes;        *)
(*   [st |-> "pending"]                read_exact needs a byte the stream  *)
(*                                     does not hold (yet).                *)
(***************************************************************************)
MAX_SINGLE_RECV_BYTES == 1024 * 1024 * 1

RecvOk(code, lines, used) ==
    [st |-> "ok", err |-> "", code |-> code, lines |-> lines, used |-> used]
RecvErr(e, used) ==
    [st |-> "err", err |-> e, code |-> 0, lines |-> <<>>, used |-> used]
RecvPending ==
    [st |-> "pending", err |-> "", code |-> 0, lines |-> <<>>, used |-> 0]

\* the least element of a nonempty set of numbers
Min(S) == CHOOSE x \in S : \A y \in S : x <= y

\* a faulty read that lets every byte through
read_byte_any_byte(s, n, max) ==
    IF n - 1 >= max THEN Some(RecvErr("TooManyBytesRead", n - 1))
    ELSE IF n > Len(s) THEN Some(RecvPending)
    ELSE None

\* a faulty read that tests the ceiling one byte late
read_byte_late_ceiling(s, n, max) ==
    IF n - 1 > max THEN Some(RecvErr("TooManyBytesRead", n - 1))
    ELSE IF n > Len(s) THEN Some(RecvPending)
    ELSE IF ~is_ascii(s[n]) THEN Some(RecvErr("NonAsciiByteFound", n))
    ELSE None

\* what reading byte n does before the framer state is looked at: None when
\* the byte is read and is ASCII; max is the ceiling on the bytes read by one
\* call, MAX_SINGLE_RECV_BYTES
read_byte(s, n, max) ==
    IF n - 1 >= max THEN Some(RecvErr("TooManyBytesRead", n - 1))
    ELSE IF n > Len(s) THEN Some(RecvPending)
    ELSE IF ~is_ascii(s[n]) THEN Some(RecvErr("NonAsciiByteFound", n))
    ELSE None

RECURSIVE receive_line(_, _, _, _, _)

\* a faulty line end that cuts two bytes from every line, also from a data
\* line
receive_line_end_cutting_crlf(s, state, start, parsed_response_code, lines, end, max) ==
    IF state = 2
    THEN RecvOk(parsed_response_code, Append(lines, SubSeq(s, start, end - 2)), end)
    ELSE receive_line(s, end + 1, Some(parsed_response_code),
                      Append(lines, SubSeq(s, start, end - 2)), max)

\* states 2, 3 and 4 at the byte `end` that completes the terminator of the
\* line whose payload starts at start: the line is pushed, and the call
\* returns after a final line
receive_line_end(s, state, start, parsed_response_code, lines, end, max) ==
    IF state = 2
    THEN RecvOk(parsed_response_code, Append(lines, SubSeq(s, start, end - 2)), end)
    ELSE receive_line(s, end + 1, Some(parsed_response_code),
                      Append(lines, SubSeq(s, start, IF state = 4 THEN end - 5
                                                                  ELSE end - 2)),
                      max)

\* states 2, 3 and 4: ends are the bytes that complete a terminator, stops
\* the bytes at which read_byte ends the call
receive_payload(s, state, start, parsed_response_code, lines, ends, stops, max) ==
    IF ends = {} \/ Min(stops) <= Min(ends) THEN read_byte(s, Min(stops), max)[1]
    ELSE receive_line_end(s, state, start, parsed_response_code, lines, Min(ends), max)

\* a faulty state 1 whose data line ends at the first CR LF '.'
receive_mode_ending_at_dot(s, m, parsed_response_code, lines, max) ==
    LET state == IF s[m] = 32 THEN 2
                 ELSE IF s[m] = 45 THEN 3
                 ELSE IF s[m] = 43 THEN 4
                 ELSE 0
        start == m + 1
    IN
    IF read_byte(s, m, max) # None THEN read_byte(s, m, max)[1]
    ELSE IF state = 0 THEN RecvErr("InvalidCharacterFound", m)
    ELSE receive_payload(s, state, start, parsed_response_code, lines,
            IF state = 4
            THEN {n \in (start + 4)..Len(s) :
                    /\ s[n - 4] = 13 /\ s[n - 3] = 10 /\ s[n - 2] = 46}
            ELSE {n \in (start + 1)..Len(s) : s[n - 1] = 13 /\ s[n] = 10},
            {n \in start..(Len(s) + 1) : read_byte(s, n, max) # None},
            max)

\* state 1: the mode character m of a line with the code parsed_response_code
receive_mode(s, m, parsed_response_code, lines, max) ==
    LET state == IF s[m] = 32 THEN 2
                 ELSE IF s[m] = 45 THEN 3
                 ELSE IF s[m] = 43 THEN 4
                 ELSE 0
        \* current_line_buffer starts at start
        start == m + 1
    IN
    IF read_byte(s, m, max) # None THEN read_byte(s, m, max)[1]
    ELSE IF state = 0 THEN RecvErr("InvalidCharacterFound", m)
    ELSE receive_payload(s, state, start, parsed_response_code, lines,
            IF state = 4
            THEN {n \in (start + 4)..Len(s) :
                    /\ s[n - 4] = 13 /\ s[n - 3] = 10 /\ s[n - 2] = 46
                    /\ s[n - 1] = 13 /\ s[n] = 10}
            ELSE {n \in (start + 1)..Len(s) : s[n - 1] = 13 /\ s[n] = 10},
            {n \in start..(Len(s) + 1) : read_byte(s, n, max) # None},
            max)

\* a faulty state 0 that does not compare the code of a line with the code
\* of the first line
receive_line_any_code(s, p, response_code, lines, max) ==
    LET bad_code == {n \in p..(p + 2) :
                        read_byte(s, n, max) # None \/ ~is_ascii_digit(s[n])}
        parsed_response_code ==
            (s[p] - 48) * 100 + (s[p + 1] - 48) * 10 + (s[p + 2] - 48)
    IN
    IF bad_code # {} THEN
        IF read_byte(s, Min(bad_code), max) # None THEN read_byte(s, Min(bad_code), max)[1]
        ELSE RecvErr("InvalidCharacterFound", Min(bad_code))
    ELSE receive_mode(s, p + 3,
                      IF response_code # None THEN response_code[1]
                      ELSE parsed_response_code, lines, max)

\* state 0: the line that starts at byte p; bad_code are the bytes of the
\* code that end the call
receive_line(s, p, response_code, lines, max) ==
    LET bad_code == {n \in p..(p + 2) :
                        read_byte(s, n, max) # None \/ ~is_ascii_digit(s[n])}
        parsed_response_code ==
            (s[p] - 48) * 100 + (s[p + 1] - 48) * 10 + (s[p + 2] - 48)
    IN
    IF bad_code # {} THEN
        IF read_byte(s, Min(bad_code), max) # None THEN read_byte(s, Min(bad_code), max)[1]
        ELSE RecvErr("InvalidCharacterFound", Min(bad_code))
    ELSE IF response_code # None /\ response_code[1] # parsed_response_code
        THEN RecvErr("ResponseCodeMismatch", p + 2)
    ELSE receive_mode(s, p + 3, parsed_response_code, lines, max)

\* receive_data with the ceiling max
receive_loop(s, max) == receive_line(s, 1, None, <<>>, max)

receive_data(s) == receive_loop(s, MAX_SINGLE_RECV_BYTES)

(***************************************************************************)
(* chars() of a &str, read from its UTF-8 bytes: a char starts at a lead   *)
(* byte and is len_utf8 bytes long.                                        *)
(***************************************************************************)
len_utf8(lead) ==
    IF lead < 128 THEN 1
    ELSE IF lead < 224 THEN 2
    ELSE IF lead < 240 THEN 3
    ELSE 4

is_continuation(b) == b >= 128 /\ b <= 191

RECURSIVE is_valid_utf8_from(_, _)
\* String::from_utf8 accepts bytes[i..]
is_valid_utf8_from(bytes, i) ==
    IF i > Len(bytes) THEN TRUE
    ELSE
    LET b == bytes[i]
        has(k) == i + k <= Len(bytes)
        cont(k) == is_continuation(bytes[i + k])
    IN
    IF b < 128 THEN is_valid_utf8_from(bytes, i + 1)
    ELSE IF b >= 194 /\ b <= 223 THEN
        has(1) /\ cont(1) /\ is_valid_utf8_from(bytes, i + 2)
    ELSE IF b >= 224 /\ b <= 239 THEN
        /\ has(2)
        /\ IF b = 224 THEN bytes[i + 1] >= 160 /\ bytes[i + 1] <= 191
           ELSE IF b = 237 THEN bytes[i + 1] >= 128 /\ bytes[i + 1] <= 159
           ELSE cont(1)
        /\ cont(2)
        /\ is_valid_utf8_from(bytes, i + 3)
    ELSE IF b >= 240 /\ b <= 244 THEN
        /\ has(3)
        /\ IF b = 240 THEN bytes[i + 1] >= 144 /\ bytes[i + 1] <= 191
           ELSE IF b = 244 THEN bytes[i + 1] >= 128 /\ bytes[i + 1] <= 143
           ELSE cont(1)
        /\ cont(2) /\ cont(3)
        /\ is_valid_utf8_from(bytes, i + 4)
    ELSE FALSE

is_valid_utf8(bytes) == is_valid_utf8_from(bytes, 1)

(***************************************************************************)
(* octal_ascii_triple_to_byte (utils/mod.rs).                              *)
(***************************************************************************)
is_octal_digit(b) == b >= 48 /\ b <= 55

\* data is [u8; 3]; the digits are read from the last one backwards up to the
\* first byte that is no octal digit
octal_ascii_triple_to_byte(data) ==
    LET used == IF ~is_octal_digit(data[3]) THEN 0
                ELSE IF ~is_octal_digit(data[2]) THEN 1
                ELSE IF ~is_octal_digit(data[1]) THEN 2
                ELSE 3
        res == (IF used >= 1 THEN data[3] - 48 ELSE 0)
             + (IF used >= 2 THEN (data[2] - 48) * 8 ELSE 0)
             + (IF used >= 3 THEN (data[1] - 48) * 64 ELSE 0)
    IN IF used = 0 \/ res > 255 THEN None ELSE Some(res)

(***************************************************************************)
(* unquote_string (utils/quoted.rs).  The result is                        *)
(*   [offset |-> Option<usize>, ok |-> BOOLEAN, val |-> bytes]             *)
(* with val the text of Ok(..) or the raw bytes of the FromUtf8Error.      *)
(***************************************************************************)
Unquoted(offset, ok, val) == [offset |-> offset, ok |-> ok, val |-> val]

RECURSIVE find_end_of_quoted_string(_, _, _, _)
\* the loop over text.chars().skip(1): i is the byte index (1-based) of the
\* next char, idx the loop's counter; Some(idx) when an unescaped quote is found
find_end_of_quoted_string(text, i, idx, is_ignored) ==
    IF i > Len(text) THEN None
    ELSE
    LET c == text[i]
        l == len_utf8(c)
    IN
    IF ~is_ignored THEN
        IF c = 92 THEN find_end_of_quoted_string(text, i + l, idx + l, TRUE)
        ELSE IF c = 34 THEN Some(idx + l)
        ELSE find_end_of_quoted_string(text, i + l, idx + l, FALSE)
    ELSE find_end_of_quoted_string(text, i + l, idx + l, FALSE)

\* what the pending octal digits esc (escaped_char_buf[..escaped_char_buf_sz])
\* add to the result: the buffer is rotated right so that the digits end it,
\* decoded, and on failure its first escaped_char_buf_sz bytes are pushed raw
flush_escaped_char_buf(esc) ==
    LET rotated == Repeat(0, 3 - Len(esc)) \o esc
        v == octal_ascii_triple_to_byte(rotated)
    IN IF v # None THEN <<v[1]>> ELSE SubSeq(rotated, 1, Len(esc))

RECURSIVE unquote_loop(_, _, _, _, _)
\* the loop over text.chars() of the quoted body; i is the byte index of the
\* next char, res the bytes pushed so far, esc the octal digits collected
unquote_loop(text, i, res, is_escaped, esc) ==
    IF i > Len(text) THEN
        IF Len(esc) > 0 THEN res \o flush_escaped_char_buf(esc) ELSE res
    ELSE
    LET c == text[i]
        l == len_utf8(c)
        raw == SubSeq(text, i, i + l - 1)
    IN
    IF is_escaped THEN
        IF Len(esc) = 0 THEN
            IF c = 110 THEN unquote_loop(text, i + 1, Append(res, 10), FALSE, <<>>)
            ELSE IF c = 116 THEN unquote_loop(text, i + 1, Append(res, 9), FALSE, <<>>)
            ELSE IF c = 114 THEN unquote_loop(text, i + 1, Append(res, 13), FALSE, <<>>)
            ELSE IF c = 34 THEN unquote_loop(text, i + 1, Append(res, 34), FALSE, <<>>)
            ELSE IF c = 92 THEN unquote_loop(text, i + 1, Append(res, 92), FALSE, <<>>)
            ELSE IF is_ascii_digit(c) THEN unquote_loop(text, i + 1, res, TRUE, <<c>>)
            ELSE unquote_loop(text, i + l, res \o raw, FALSE, <<>>)
        ELSE
            IF is_ascii_digit(c) /\ c - 48 <= 7 /\ Len(esc) < 3
            THEN unquote_loop(text, i + 1, res, TRUE, Append(esc, c))
            \* the char is processed again, now unescaped
            ELSE unquote_loop(text, i, res \o flush_escaped_char_buf(esc), FALSE, <<>>)
    ELSE
        IF c = 92 THEN unquote_loop(text, i + 1, res, TRUE, <<>>)
        ELSE unquote_loop(text, i + l, res \o raw, FALSE, <<>>)

\* the result for a text that starts with a quote closed at idx
unquote_body(idx, body, res) ==
    IF \A k \in 1..Len(body) : body[k] # 92
    THEN Unquoted(Some(idx), TRUE, body)
    ELSE Unquoted(Some(idx), is_valid_utf8(res), res)

unquote_quoted(text, end_of_quoted_string) ==
    IF text[1] = 34 /\ end_of_quoted_string # None
    THEN unquote_body(end_of_quoted_string[1],
                      SubSeq(text, 2, end_of_quoted_string[1]),      \* &text[1..idx]
                      unquote_loop(SubSeq(text, 2, end_of_quoted_string[1]), 1,
                                   <<>>, FALSE, <<>>))
    ELSE Unquoted(None, TRUE, text)

unquote_string(text) ==
    IF Len(text) = 0 THEN Unquoted(None, TRUE, <<>>)
    ELSE IF Len(text) >= 2
    THEN unquote_quoted(text,
            find_end_of_quoted_string(text, 1 + len_utf8(text[1]), 0, FALSE))
    ELSE Unquoted(None, TRUE, text)

(***************************************************************************)
(* parse_single_key_value (utils/key_value.rs): None for Err(()), and      *)
(* Some(<<key, value>>) for Ok((key, value)).                              *)
(***************************************************************************)
RECURSIVE key_offset_of(_, _)
\* the loop over text.chars(): the byte offset of the first '=' (or the
\* length of the text when there is none), -1 when a key char is not allowed
key_offset_of(text, i) ==
    IF i > Len(text) THEN Len(text)
    ELSE
    LET c == text[i]
    IN
    IF c = 61 THEN i - 1
    ELSE IF c # 32 /\ c # 45 /\ c # 95 /\ c # 47 /\ c # 36
            /\ ~(is_ascii(c) /\ is_ascii_alphanumeric(c)) THEN -1
    ELSE key_offset_of(text, i + len_utf8(c))

\* a faulty split that refuses the empty key
split_key_value_requiring_key(text, key_offset) ==
    IF key_offset = -1 THEN None
    ELSE IF key_offset >= Len(text) \/ key_offset = 0 THEN None
    ELSE Some(<<SubSeq(text, 1, key_offset),
                SubSeq(text, key_offset + 2, Len(text))>>)

\* the split of text at key_offset
split_key_value(text, key_offset) ==
    IF key_offset = -1 THEN None
    ELSE IF key_offset >= Len(text) THEN None
    ELSE Some(<<SubSeq(text, 1, key_offset),
                SubSeq(text, key_offset + 2, Len(text))>>)

parse_single_key_value(text) == split_key_value(text, key_offset_of(text, 1))

(***************************************************************************)
(* TorAuthMethod::from_str (control/primitives/auth.rs): None for Err(()). *)
(***************************************************************************)
TorAuthMethod_from_str(m) ==
    IF m = <<78,85,76,76>> THEN Some("Null")                          \* "NULL"
    ELSE IF m = <<72,65,83,72,69,68,80,65,83,83,87,79,82,68>> THEN Some("HashedPassword")  \* "HASHEDPASSWORD"
    ELSE IF m = <<67,79,79,75,73,69>> THEN Some("Cookie")                  \* "COOKIE"
    ELSE IF m = <<83,65,70,69,67,79,79,75,73,69>> THEN Some("SafeCookie")          \* "SAFECOOKIE"
    ELSE None

(***************************************************************************)
(* str::split(',') and str::trim on ASCII text.                            *)
(***************************************************************************)
RECURSIVE split_from(_, _, _, _)
\* the pieces of text between the separators, an empty text giving one
\* empty piece; start is where the current piece begins
split_from(text, sep, i, start) ==
    IF i > Len(text) THEN <<SubSeq(text, start, Len(text))>>
    ELSE IF text[i] = sep
         THEN <<SubSeq(text, start, i - 1)>> \o split_from(text, sep, i + 1, i + 1)
         ELSE split_from(text, sep, i + 1, start)

split(text, sep) == split_from(text, sep, 1, 1)

is_whitespace(b) == b = 32 \/ (b >= 9 /\ b <= 13)

trim(text) ==
    LET keep == {i \in 1..Len(text) : ~is_whitespace(text[i])}
    IN IF keep = {} THEN <<>>
       ELSE SubSeq(text, CHOOSE i \in keep : \A j \in keep : i <= j,
                         CHOOSE i \in keep : \A j \in keep : i >= j)

(***************************************************************************)
(* UnauthenticatedConn::read_protocol_info, after receive_data returned    *)
(* (code, lines).  The result is [ok, err, code, info]: info is the        *)
(* TorPreAuthInfo stored in the connection when ok.                        *)
(***************************************************************************)
ProtocolInfoErr(e, c) == [ok |-> FALSE, err |-> e, code |-> c, info |-> None]

TorPreAuthInfo(auth_methods, cookie_file, tor_version) ==
    [auth_methods |-> auth_methods, cookie_file |-> cookie_file,
     tor_version |-> tor_version]

\* cookie_path of the AUTH METHODS record: None on an error, Some(Option<path>)
\* otherwise; kv is parse_single_key_value(maybe_cookie_str), unq the
\* unquoted value of it
cookie_path_of(maybe_cookie_str, kv, unq) ==
    IF Len(maybe_cookie_str) > 0 THEN
        IF kv = None THEN None
        ELSE IF kv[1][1] # <<67,79,79,75,73,69,70,73,76,69>> THEN None      \* "COOKIEFILE"
        ELSE IF unq.offset # None /\ unq.ok /\ unq.offset[1] = Len(kv[1][2]) - 1
             THEN Some(Some(unq.val))
             ELSE None
    ELSE Some(None)

cookie_path_of_pair(maybe_cookie_str, kv) ==
    cookie_path_of(maybe_cookie_str, kv,
                   IF kv = None THEN Unquoted(None, TRUE, <<>>)
                   ELSE unquote_string(kv[1][2]))

\* the (auth_methods, cookie_path) of the AUTH METHODS record: None on an
\* error, Some(<<set of methods, Option<path>>>) otherwise; methods are the
\* results of TorAuthMethod::from_str on the names of the record
auth_methods_of(methods, cookie_path) ==
    IF \E i \in 1..Len(methods) : methods[i] = None THEN None
    ELSE IF \E i, j \in 1..Len(methods) : i < j /\ methods[i] = methods[j] THEN None
    ELSE IF cookie_path = None THEN None
    ELSE IF {methods[i][1] : i \in 1..Len(methods)} = {} THEN None
    ELSE Some(<<{methods[i][1] : i \in 1..Len(methods)}, cookie_path[1]>>)

method_names(names) == [i \in 1..Len(names) |-> TorAuthMethod_from_str(names[i])]

parse_auth_methods_at(auth_methods, end_methods_idx) ==
    auth_methods_of(
        method_names(split(SubSeq(auth_methods, 1, end_methods_idx), 44)),
        cookie_path_of_pair(
            trim(SubSeq(auth_methods, end_methods_idx + 1, Len(auth_methods))),
            parse_single_key_value(
                trim(SubSeq(auth_methods, end_methods_idx + 1, Len(auth_methods))))))

parse_auth_methods(auth_methods) ==
    LET spaces == {i \in 1..Len(auth_methods) : auth_methods[i] = 32}
    IN parse_auth_methods_at(auth_methods,
            IF spaces = {} THEN Len(auth_methods) ELSE Min(spaces) - 1)

\* res.get(key) on the records parsed from the middle lines
records_get(parsed, key) ==
    IF \E i \in 1..Len(parsed) : parsed[i][1][1] = key
    THEN Some(parsed[CHOOSE i \in 1..Len(parsed) : parsed[i][1][1] = key][1][2])
    ELSE None

\* a faulty end of read_protocol_info that forgets the cookie file
protocol_info_of_without_cookie_file(methods_and_path, unq_version) ==
    IF methods_and_path = None THEN ProtocolInfoErr("InvalidFormat", 0)
    ELSE IF unq_version = None THEN ProtocolInfoErr("InvalidFormat", 0)
    ELSE IF ~(unq_version[1].offset # None /\ unq_version[1].ok)
        THEN ProtocolInfoErr("InvalidFormat", 0)
    ELSE [ok |-> TRUE, err |-> "", code |-> 0,
          info |-> Some(TorPreAuthInfo(methods_and_path[1][1], None, unq_version[1].val))]

\* the end of read_protocol_info: methods_and_path is None when the AUTH
\* METHODS record is missing or wrong, unq_version when there is no version
protocol_info_of(methods_and_path, unq_version) ==
    IF methods_and_path = None THEN ProtocolInfoErr("InvalidFormat", 0)
    ELSE IF unq_version = None THEN ProtocolInfoErr("InvalidFormat", 0)
    ELSE IF ~(unq_version[1].offset # None /\ unq_version[1].ok)
        THEN ProtocolInfoErr("InvalidFormat", 0)
    ELSE [ok |-> TRUE, err |-> "", code |-> 0,
          info |-> Some(TorPreAuthInfo(methods_and_path[1][1],
                                       methods_and_path[1][2],
                                       unq_version[1].val))]

protocol_info_of_fields(auth_methods, version) ==
    protocol_info_of(
        IF auth_methods = None THEN None ELSE parse_auth_methods(auth_methods[1]),
        IF version = None THEN None ELSE Some(unquote_string(version[1])))

\* read_protocol_info from its loop over the middle lines on; parsed are the
\* results of parse_single_key_value on them
protocol_info_of_records(lines, parsed) ==
    IF \E i \in 1..Len(parsed) : parsed[i] = None
        THEN ProtocolInfoErr("InvalidFormat", 0)
    ELSE IF \E i, j \in 1..Len(parsed) : i < j /\ parsed[i][1][1] = parsed[j][1][1]
        THEN ProtocolInfoErr("InvalidFormat", 0)
    ELSE IF lines[Len(lines)] # <<79,75>>                       \* "OK"
        THEN ProtocolInfoErr("InvalidFormat", 0)
    ELSE protocol_info_of_fields(
            IF records_get(parsed, <<65,85,84,72,32,77,69,84,72,79,68,83>>) # None      \* "AUTH METHODS"
            THEN records_get(parsed, <<65,85,84,72,32,77,69,84,72,79,68,83>>)
            ELSE records_get(parsed, <<77,69,84,72,79,68,83>>),               \* "METHODS"
            records_get(parsed, <<86,69,82,83,73,79,78,32,84,111,114>>))          \* "VERSION Tor"

\* a faulty read_protocol_info that does not look at the status
read_protocol_info_of_any_status(code, lines) ==
    IF Len(lines) < 3 THEN ProtocolInfoErr("InvalidFormat", 0)
    ELSE IF lines[1] # <<80,82,79,84,79,67,79,76,73,78,70,79,32,49>>
        THEN ProtocolInfoErr("InvalidFormat", 0)
    ELSE protocol_info_of_records(lines,
            [i \in 1..(Len(lines) - 2) |-> parse_single_key_value(lines[i + 1])])

read_protocol_info(code, lines) ==
    IF code # 250 THEN ProtocolInfoErr("InvalidResponseCode", code)
    ELSE IF Len(lines) < 3 THEN ProtocolInfoErr("InvalidFormat", 0)
    ELSE IF lines[1] # <<80,82,79,84,79,67,79,76,73,78,70,79,32,49>>                    \* "PROTOCOLINFO 1"
        THEN ProtocolInfoErr("InvalidFormat", 0)
    ELSE protocol_info_of_records(lines,
            [i \in 1..(Len(lines) - 2) |-> parse_single_key_value(lines[i + 1])])

(***************************************************************************)
(* UnauthenticatedConn::read_auth_challenge_response, after receive_data   *)
(* returned (code, lines).  The result is [ok, err, code, server_hash,     *)
(* server_nonce].                                                          *)
(***************************************************************************)
AuthChallengeErr(e, c) ==
    [ok |-> FALSE, err |-> e, code |-> c, server_hash |-> <<>>, server_nonce |-> <<>>]

\* the AuthChallengeResponse of the two decoded fields
auth_challenge_response_of(server_hash, server_nonce) ==
    IF server_hash = None THEN AuthChallengeErr("InvalidFormat", 0)
    ELSE IF server_nonce = None THEN AuthChallengeErr("InvalidFormat", 0)
    ELSE [ok |-> TRUE, err |-> "", code |-> 0,
          server_hash |-> server_hash[1], server_nonce |-> server_nonce[1]]

read_auth_challenge_response(code, lines) ==
    IF code # 250 THEN AuthChallengeErr("InvalidResponseCode", code)
    ELSE IF Len(lines) # 1 THEN AuthChallengeErr("InvalidFormat", 0)
    \* "AUTHCHALLENGE".len() + "SERVERHASH=".len() + "SERVERNONCE=".len() + 64 * 2 + 2
    ELSE IF Len(lines[1]) # 13 + 11 + 12 + 64 * 2 + 2
        THEN AuthChallengeErr("InvalidFormat", 0)
    ELSE auth_challenge_response_of(
            hex_decode_to_slice(SubSeq(lines[1], 25 + 1, 25 + 64), 32),
            hex_decode_to_slice(SubSeq(lines[1], 90 + 12 + 1, 90 + 12 + 64), 32))

(***************************************************************************)
(* Hmac<Sha256> (crates hmac and sha2, which are not part of the           *)
(* repository).  The MAC is kept as the key and the bytes fed to it so     *)
(* far; input appends.  The 32-byte code is an abstraction of HMAC-SHA256: *)
(* a deterministic function of the key and of the whole message that       *)
(* depends on every byte and on the order of the bytes.  Nothing in the    *)
(* model relies on its being collision free.                               *)
(***************************************************************************)
\* "Tor safe cookie authentication controller-to-server hash"
TOR_SAFECOOKIE_CONSTANT ==
    <<84,111,114,32,115,97,102,101,32,99,111,111,107,105,101,32,97,117,116,104,101,110,116,105,99,97,116,105,111,110,32,99,111,110,116,114,111,108,108,101,114,45,116,111,45,115,101,114,118,101,114,32,104,97,115,104>>

\* a position-weighted checksum of data[lo..hi], computed by halving
RECURSIVE absorb(_, _, _)
absorb(data, lo, hi) ==
    IF lo > hi THEN 0
    ELSE IF lo = hi THEN ((data[lo] + 1) * (lo * lo + 7)) % 65521
    ELSE LET mid == (lo + hi) \div 2
         IN (absorb(data, lo, mid) + absorb(data, mid + 1, hi)) % 65521

hmac_new_varkey(key) == [key |-> key, message |-> <<>>]
hmac_input(mac, data) == [mac EXCEPT !.message = @ \o data]
hmac_code_of(k, m) == [i \in 1..32 |-> (m * i + k * (i + 3) + i) % 256]
hmac_result_code(mac) ==
    hmac_code_of(absorb(mac.key, 1, Len(mac.key)),
                 absorb(mac.message, 1, Len(mac.message)))

(***************************************************************************)
(* The state.                                                              *)
(*                                                                         *)
(* One stream connects the client and the Tor daemon.  inbox holds the     *)
(* bytes the daemon has written and the client has not read yet, wire the  *)
(* requests the client has written, in order.  The futures of the library  *)
(* run on the caller's task: a call suspends only in its reads and writes  *)
(* and in the event handler, so `call` is the position of the one call in  *)
(* flight.                                                                 *)
(***************************************************************************)
VARIABLES
    inbox,      \* bytes written by the daemon, not yet read by the client
    closed,     \* the daemon has closed the stream
    sent,       \* number of chunks the daemon has written
    wire,       \* the requests written by the client (a sequence of byte strings)
    uconn,      \* Option<UnauthenticatedConn>: None once it was moved out of
    aconn,      \* Option<AuthenticatedConn>
    call,       \* the call in flight, or Idle
    ncalls,     \* number of calls made so far
    trace       \* what happened on the connection, in order (see Entry)

vars == <<inbox, closed, sent, wire, uconn, aconn, call, ncalls, trace>>

\* Conn { stream }: the model has one stream
Conn_new(stream) == [stream |-> stream]

\* a call result: Ok(val) or Err(ConnError); `code` carries the status of
\* ConnError::InvalidResponseCode(code) and is 0 otherwise
Ok(val) == [ok |-> TRUE, err |-> "", code |-> 0, val |-> val]
Error(e) == [ok |-> FALSE, err |-> e, code |-> 0, val |-> <<>>]
ErrInvalidResponseCode(c) ==
    [ok |-> FALSE, err |-> "InvalidResponseCode", code |-> c, val |-> <<>>]

\* TorAuthData
TorAuthData(method, body) == [method |-> method, body |-> body]

Idle ==
    [op |-> "idle", pc |-> "idle", data |-> TorAuthData("Null", <<>>),
     client_nonce |-> <<>>, args |-> <<>>, event |-> <<>>]

(***************************************************************************)
(* The entries of trace.                                                   *)
(*   call   call number n of operation op starts (h: a handler is set);    *)
(*          of an authenticate call, via is the variant of the auth data   *)
(*          and bytes its body                                             *)
(*   write  write_data wrote `bytes`; rcv.used is the number of bytes the   *)
(*          stream held unread at that time                                *)
(*   read   receive_data returned rcv; via tells whether it was called     *)
(*          directly ("receive_data") or by recv_response                  *)
(*   event  the event handler was invoked with the lines rcv.lines and     *)
(*          returned res                                                   *)
(*   ret    the call returned res                                          *)
(*   into   into_authenticated moved the connection                        *)
(***************************************************************************)
Entry(ev, op, via, bytes, rcv, res) ==
    [ev |-> ev, n |-> ncalls, op |-> op, via |-> via, bytes |-> bytes,
     rcv |-> rcv, res |-> res, h |-> aconn # None /\ aconn[1].async_event_handler # None]

CallEntry(op) == [Entry("call", op, "", <<>>, RecvPending, Ok(<<>>)) EXCEPT !.n = ncalls + 1]
WriteEntry(op, bytes) ==
    [Entry("write", op, "", bytes, [RecvPending EXCEPT !.used = Len(inbox)], Ok(<<>>))
        EXCEPT !.n = ncalls + 1]
RetNow(op, res) == [Entry("ret", op, "", <<>>, RecvPending, res) EXCEPT !.n = ncalls + 1]
ReadEntry(via, rcv) == Entry("read", call.op, via, <<>>, rcv, Ok(<<>>))
EventEntry(lines, res) ==
    Entry("event", call.op, "", <<>>, RecvOk(650, lines, 0), res)
RetEntry(res) == Entry("ret", call.op, "", <<>>, RecvPending, res)

(***************************************************************************)
(* The transport.                                                          *)
(***************************************************************************)
\* a faulty end of stream that returns what was read so far as a reply
read_outcome_returning_partial(r) ==
    IF r.st = "pending" /\ closed THEN RecvOk(0, <<>>, Len(inbox)) ELSE r

\* receive_data on the stream as it is: a reply, an error, or pending when
\* the bytes of the stream end inside a reply; read_exact fails with an I/O
\* error (UnexpectedEof) when the stream was closed there
read_outcome(r) ==
    IF r.st = "pending" /\ closed THEN RecvErr("IOError", Len(inbox)) ELSE r

Read == read_outcome(receive_data(inbox))

\* write_data succeeds while the stream is open; once the daemon has closed
\* it, the write either still succeeds (buffered) or fails with an I/O error
write_data_outcomes == IF closed THEN {TRUE, FALSE} ELSE {TRUE}

\* the daemon writes one chunk of bytes
ServerSend(pool) ==
    /\ ~closed
    /\ sent < MaxSent
    /\ \E chunk \in pool :
        /\ inbox' = inbox \o chunk
        /\ sent' = sent + 1
    /\ UNCHANGED <<closed, wire, uconn, aconn, call, ncalls, trace>>

\* the daemon closes the stream
ServerClose ==
    /\ ~closed
    /\ closed' = TRUE
    /\ UNCHANGED <<inbox, sent, wire, uconn, aconn, call, ncalls, trace>>

(***************************************************************************)
(* Conn used directly (control/conn.rs): the daemon writes pieces of       *)
(* replies, the caller calls receive_data.                                 *)
(***************************************************************************)
\* the daemon writes one piece of a reply, at most max of them
ConnSend(pool, max) ==
    /\ ~closed
    /\ sent < max
    /\ \E chunk \in pool :
        /\ inbox' = inbox \o chunk
        /\ sent' = sent + 1
    /\ UNCHANGED <<closed, wire, uconn, aconn, call, ncalls, trace>>

\* a faulty receive_data that reads the stream in blocks: the bytes behind
\* the reply are taken from the stream with it
ReceiveDataBuffered(max) ==
    /\ uconn = None /\ aconn = None
    /\ call = Idle
    /\ ncalls < MaxCalls
    /\ \E r \in {read_outcome(receive_loop(inbox, max))} :
       /\ r.st # "pending"
       /\ inbox' = <<>>
       /\ trace' = Append(trace,
                          [Entry("read", "receive_data", "receive_data", inbox, r, Ok(<<>>))
                              EXCEPT !.n = ncalls + 1])
    /\ ncalls' = ncalls + 1
    /\ UNCHANGED <<closed, sent, wire, uconn, aconn, call>>

\* conn.receive_data() with the ceiling max: the call returns once the
\* stream holds a reply or an error, or was closed; the entry keeps the
\* bytes the stream held when the call returned
ReceiveData(max) ==
    /\ uconn = None /\ aconn = None
    /\ call = Idle
    /\ ncalls < MaxCalls
    /\ \E r \in {read_outcome(receive_loop(inbox, max))} :
       /\ r.st # "pending"
       /\ inbox' = SubSeq(inbox, r.used + 1, Len(inbox))
       /\ trace' = Append(trace,
                          [Entry("read", "receive_data", "receive_data", inbox, r, Ok(<<>>))
                              EXCEPT !.n = ncalls + 1])
    /\ ncalls' = ncalls + 1
    /\ UNCHANGED <<closed, sent, wire, uconn, aconn, call>>

\* the pieces the daemon may write
\* "250-A\r\n"
LINE_MID == <<50,53,48,45,65,13,10>>
\* "250 OK\r\n"
LINE_FINAL == <<50,53,48,32,79,75,13,10>>
\* "250+B\r\n s\r\n.\r\n"
LINE_DATA == <<50,53,48,43,66,13,10,32,115,13,10,46,13,10>>
\* "250+C\r\n.x\r\n": a data line not yet terminated
LINE_DATA_OPEN == <<50,53,48,43,67,13,10,46,120,13,10>>
\* ".\r\n"
DOT_CRLF == <<46,13,10>>
\* "515 E\r\n"
LINE_OTHER_CODE == <<53,49,53,32,69,13,10>>
\* "250", " O", "-A": the beginning of a line
CODE_ONLY == <<50,53,48>>
FINAL_OPEN == <<32,79>>
MID_OPEN == <<45,65>>
\* a byte that is not ASCII
NON_ASCII == <<200>>

ConnPool ==
    { LINE_MID, LINE_FINAL, LINE_DATA, LINE_DATA_OPEN, DOT_CRLF, LINE_OTHER_CODE,
      CODE_ONLY, FINAL_OPEN, MID_OPEN, NON_ASCII }

\* the number of pieces the daemon writes
MaxChunks == 3

\* Conn::new(stream)
InitConn ==
    /\ inbox = <<>>
    /\ closed = FALSE
    /\ sent = 0
    /\ wire = <<>>
    /\ uconn = None
    /\ aconn = None
    /\ call = Idle
    /\ ncalls = 0
    /\ trace = <<>>

NextConn ==
    \/ ConnSend(ConnPool, MaxChunks)
    \/ ServerClose
    \/ ReceiveData(MAX_SINGLE_RECV_BYTES)

SpecConn == InitConn /\ [][NextConn]_vars

(***************************************************************************)
(* Conn with the ceiling on the bytes of one call scaled down from         *)
(* MAX_SINGLE_RECV_BYTES to Ceiling, so that replies around the ceiling    *)
(* fit the model.                                                          *)
(***************************************************************************)
Ceiling == 12

\* "250 AAAA": a final line that is not complete
LINE_BEGIN == <<50,53,48,32,65,65,65,65>>
\* "A", "AA": more of its payload
LINE_MORE_1 == <<65>>
LINE_MORE_2 == <<65,65>>
\* "A\r\n": its end
LINE_END == <<65,13,10>>

\* "250 AAAAAAAA\r\n": a final line of 14 bytes
LINE_LONG == <<50,53,48,32,65,65,65,65,65,65,65,65,13,10>>

CeilingPool == { LINE_BEGIN, LINE_MORE_1, LINE_MORE_2, LINE_END, LINE_LONG }

NextCeiling ==
    \/ ConnSend(CeilingPool, MaxChunks)
    \/ ServerClose
    \/ ReceiveData(Ceiling)

SpecCeiling == InitConn /\ [][NextCeiling]_vars

(***************************************************************************)
(* UnauthenticatedConn (control/conn/unauthenticated_conn.rs).             *)
(***************************************************************************)
UnauthenticatedConn_from(conn) ==
    [conn |-> conn, protocol_info |-> None, was_protocol_info_loaded |-> FALSE]

\* b"PROTOCOLINFO 1\r\n"
PROTOCOLINFO_REQUEST == <<80,82,79,84,79,67,79,76,73,78,70,79,32,49,13,10>>

\* load_protocol_info up to its first read: the flag is tested, then the
\* request is written
LoadProtocolInfo ==
    /\ uconn # None
    /\ call = Idle
    /\ ncalls < MaxCalls
    /\ ncalls' = ncalls + 1
    /\ IF uconn[1].was_protocol_info_loaded
       THEN /\ trace' = trace \o <<CallEntry("load_protocol_info"),
                                   RetNow("load_protocol_info", Error("InfoFetchedTwice"))>>
            /\ UNCHANGED <<wire, call>>
       ELSE \E written \in write_data_outcomes :
            IF written
            THEN /\ wire' = Append(wire, PROTOCOLINFO_REQUEST)
                 /\ call' = [Idle EXCEPT !.op = "load_protocol_info",
                                         !.pc = "read_protocol_info"]
                 /\ trace' = trace \o <<CallEntry("load_protocol_info"),
                                        WriteEntry("load_protocol_info", PROTOCOLINFO_REQUEST)>>
            ELSE /\ trace' = trace \o <<CallEntry("load_protocol_info"),
                                        RetNow("load_protocol_info", Error("IOError"))>>
                 /\ UNCHANGED <<wire, call>>
    /\ UNCHANGED <<inbox, closed, sent, uconn, aconn>>

\* read_protocol_info: one reply is read and parsed; the connection keeps
\* the info and sets was_protocol_info_loaded when the reply is accepted
ReadProtocolInfo ==
    /\ call.pc = "read_protocol_info"
    /\ \E r \in {Read} :
       /\ r.st # "pending"
       /\ \E parsed \in {read_protocol_info(r.code, r.lines)} :
          \E res \in {IF r.st = "err" THEN Error(r.err)
                      ELSE IF parsed.ok THEN Ok(parsed.info[1])
                      ELSE [Error(parsed.err) EXCEPT !.code = parsed.code]} :
          /\ inbox' = SubSeq(inbox, r.used + 1, Len(inbox))
          /\ uconn' = IF res.ok
                      THEN Some([uconn[1] EXCEPT !.was_protocol_info_loaded = TRUE,
                                                 !.protocol_info = parsed.info])
                      ELSE uconn
          /\ trace' = trace \o <<ReadEntry("receive_data", r), RetEntry(res)>>
          /\ call' = Idle
    /\ UNCHANGED <<closed, sent, wire, aconn, ncalls>>

\* take_protocol_info
TakeProtocolInfo ==
    /\ uconn # None
    /\ call = Idle
    /\ uconn[1].protocol_info # None
    /\ uconn' = Some([uconn[1] EXCEPT !.protocol_info = None])
    /\ UNCHANGED <<inbox, closed, sent, wire, aconn, call, ncalls, trace>>

\* let mut client_nonce = [0u8; 64]
CLIENT_NONCE_LEN == 64

\* the values thread_rng().fill_bytes may give the nonce: two of them
ClientNonces ==
    { Repeat(171, CLIENT_NONCE_LEN),
      [i \in 1..CLIENT_NONCE_LEN |-> (i * 37 + 5) % 256] }

\* b"AUTHENTICATE\r\n"
AUTHENTICATE_NULL_REQUEST == <<65,85,84,72,69,78,84,73,67,65,84,69,13,10>>
\* b"AUTHENTICATE "
AUTHENTICATE_PREFIX == <<65,85,84,72,69,78,84,73,67,65,84,69,32>>
\* "AUTHCHALLENGE SAFECOOKIE "
AUTHCHALLENGE_PREFIX == <<65,85,84,72,67,72,65,76,76,69,78,71,69,32,83,65,70,69,67,79,79,75,73,69,32>>
CRLF == <<13, 10>>

\* the first request authenticate writes for `data`
authenticate_first_request(data, client_nonce) ==
    IF data.method = "Null" THEN AUTHENTICATE_NULL_REQUEST
    ELSE IF data.method = "HashedPassword"
        THEN AUTHENTICATE_PREFIX \o quote_string(data.body) \o CRLF
    ELSE IF data.method = "Cookie"
        THEN AUTHENTICATE_PREFIX \o hex_encode_upper(data.body) \o CRLF
    ELSE AUTHCHALLENGE_PREFIX \o hex_encode_upper(client_nonce) \o CRLF

\* a faulty client hash that feeds the server's hash instead of its nonce
safecookie_client_hash_of_server_hash(cookie, client_nonce, res) ==
    hmac_result_code(
        hmac_input(
            hmac_input(
                hmac_input(hmac_new_varkey(TOR_SAFECOOKIE_CONSTANT), cookie),
                client_nonce),
            res.server_hash))

\* the client hash of the SAFECOOKIE procedure; res is the
\* AuthChallengeResponse
safecookie_client_hash(cookie, client_nonce, res) ==
    hmac_result_code(
        hmac_input(
            hmac_input(
                hmac_input(hmac_new_varkey(TOR_SAFECOOKIE_CONSTANT), cookie),
                client_nonce),
            res.server_nonce))

\* the AUTHENTICATE request of the SAFECOOKIE procedure
authenticate_safecookie_request(client_hash) ==
    AUTHENTICATE_PREFIX \o hex_encode_upper(client_hash) \o CRLF

\* a faulty end of authenticate that does not look at the status
authenticate_result_ignoring_status(code) == Ok(<<>>)

\* the end of authenticate: the status of the reply decides
authenticate_result(code) ==
    IF code # 250 THEN ErrInvalidResponseCode(code) ELSE Ok(<<>>)

\* authenticate up to its first read: the request of the variant is written
Authenticate(data) ==
    /\ uconn # None
    /\ call = Idle
    /\ ncalls < MaxCalls
    /\ ncalls' = ncalls + 1
    /\ \E client_nonce \in (IF data.method = "SafeCookie" THEN ClientNonces ELSE {<<>>}) :
       \E written \in write_data_outcomes :
       \E request \in {authenticate_first_request(data, client_nonce)} :
          IF written
          THEN /\ wire' = Append(wire, request)
               /\ call' = [Idle EXCEPT
                             !.op = "authenticate",
                             !.pc = IF data.method = "SafeCookie"
                                    THEN "read_auth_challenge_response"
                                    ELSE "receive_data",
                             !.data = data,
                             !.client_nonce = client_nonce]
               /\ trace' = trace \o <<[CallEntry("authenticate") EXCEPT !.bytes = data.body,
                                                                         !.via = data.method],
                                      WriteEntry("authenticate", request)>>
          ELSE /\ trace' = trace \o <<CallEntry("authenticate"),
                                      RetNow("authenticate", Error("IOError"))>>
               /\ UNCHANGED <<wire, call>>
    /\ UNCHANGED <<inbox, closed, sent, uconn, aconn>>

\* authenticate, SafeCookie: the reply to AUTHCHALLENGE is read, and when it
\* is accepted the AUTHENTICATE request with the client hash is written
AuthenticateChallenge ==
    /\ call.pc = "read_auth_challenge_response"
    /\ \E r \in {Read} :
       /\ r.st # "pending"
       /\ \E res \in {read_auth_challenge_response(r.code, r.lines)} :
          \E request \in {IF res.ok
                          THEN authenticate_safecookie_request(
                                  safecookie_client_hash(call.data.body,
                                                         call.client_nonce, res))
                          ELSE <<>>} :
          /\ inbox' = SubSeq(inbox, r.used + 1, Len(inbox))
          /\ IF r.st = "err"
             THEN /\ trace' = trace \o <<ReadEntry("receive_data", r), RetEntry(Error(r.err))>>
                  /\ call' = Idle
                  /\ UNCHANGED wire
             ELSE IF ~res.ok
             THEN /\ trace' = trace \o <<ReadEntry("receive_data", r),
                                         RetEntry([Error(res.err) EXCEPT !.code = res.code])>>
                  /\ call' = Idle
                  /\ UNCHANGED wire
             ELSE \E written \in write_data_outcomes :
                  IF written
                  THEN /\ wire' = Append(wire, request)
                       /\ call' = [call EXCEPT !.pc = "receive_data"]
                       /\ trace' = trace \o <<ReadEntry("receive_data", r),
                                              Entry("write", call.op, "", request,
                                                    [RecvPending EXCEPT
                                                        !.used = Len(inbox) - r.used],
                                                    Ok(<<>>))>>
                  ELSE /\ trace' = trace \o <<ReadEntry("receive_data", r),
                                              RetEntry(Error("IOError"))>>
                       /\ call' = Idle
                       /\ UNCHANGED wire
    /\ UNCHANGED <<closed, sent, uconn, aconn, ncalls>>

\* a faulty end of authenticate that promotes the connection on success
AuthenticateFinishPromoting ==
    /\ call.op = "authenticate"
    /\ call.pc = "receive_data"
    /\ \E r \in {read_outcome(receive_data(inbox))} :
       /\ r.st # "pending"
       /\ \E res \in {IF r.st = "err" THEN Error(r.err)
                      ELSE IF r.code # 250 THEN ErrInvalidResponseCode(r.code)
                      ELSE Ok(<<>>)} :
          /\ inbox' = SubSeq(inbox, r.used + 1, Len(inbox))
          /\ trace' = trace \o <<ReadEntry("receive_data", r), RetEntry(res)>>
          /\ call' = Idle
          /\ aconn' = IF res.ok THEN Some([async_event_handler |-> None,
                                           conn |-> uconn[1].conn])
                      ELSE aconn
          /\ uconn' = IF res.ok THEN None ELSE uconn
    /\ UNCHANGED <<closed, sent, wire, ncalls>>

\* authenticate, its last read: the reply to AUTHENTICATE
AuthenticateFinish ==
    /\ call.op = "authenticate"
    /\ call.pc = "receive_data"
    /\ \E r \in {Read} :
       /\ r.st # "pending"
       /\ \E res \in {IF r.st = "err" THEN Error(r.err) ELSE authenticate_result(r.code)} :
          /\ inbox' = SubSeq(inbox, r.used + 1, Len(inbox))
          /\ trace' = trace \o <<ReadEntry("receive_data", r), RetEntry(res)>>
          /\ call' = Idle
    /\ UNCHANGED <<closed, sent, wire, uconn, aconn, ncalls>>

(***************************************************************************)
(* AuthenticatedConn::from(conn) and UnauthenticatedConn::                 *)
(* into_authenticated.                                                     *)
(***************************************************************************)
\* a faulty conversion that opens a stream of its own
AuthenticatedConn_from_other_stream(conn) ==
    [async_event_handler |-> None, conn |-> [stream |-> "other"]]

AuthenticatedConn_from(conn) == [async_event_handler |-> None, conn |-> conn]

\* into_authenticated(self): the unauthenticated connection is moved into
\* the call, and its Conn into the authenticated connection
IntoAuthenticated ==
    /\ uconn # None
    /\ call = Idle
    /\ aconn' = Some(AuthenticatedConn_from(uconn[1].conn))
    /\ uconn' = None
    /\ trace' = Append(trace, Entry("into", "into_authenticated", "", <<>>,
                                    RecvPending, Ok(<<>>)))
    /\ UNCHANGED <<inbox, closed, sent, wire, call, ncalls>>

(***************************************************************************)
(* The unauthenticated connection with its daemon: what the daemon may     *)
(* write and what the caller may pass.                                     *)
(***************************************************************************)
\* "250-PROTOCOLINFO 1\r\n"
\* "250-AUTH METHODS=COOKIE,SAFECOOKIE COOKIEFILE=\"/c\"\r\n"
\* "250-VERSION Tor=\"0.4\"\r\n"
\* "250 OK\r\n"
REPLY_PROTOCOLINFO ==
    <<50,53,48,45,80,82,79,84,79,67,79,76,73,78,70,79,32,49,13,10,50,53,48,45,65,85,84,72,32,77,69,84,72,79,68,83,61,67,79,79,75,73,69,44,83,65,70,69,67,79,79,75,73,69,32,67,79,79,75,73,69,70,73,76,69,61,34,47,99,34,13,10,50,53,48,45,86,69,82,83,73,79,78,32,84,111,114,61,34,48,46,52,34,13,10,50,53,48,32,79,75,13,10>>
\* "250 OK\r\n"
REPLY_OK == <<50,53,48,32,79,75,13,10>>
\* "515 Bad authentication\r\n"
REPLY_BAD_AUTH == <<53,49,53,32,66,97,100,32,97,117,116,104,101,110,116,105,99,97,116,105,111,110,13,10>>

\* the daemon's nonce and hash of the AUTHCHALLENGE reply
ServerNonce == [i \in 1..32 |-> (i * 11 + 55) % 256]
ServerHash == [i \in 1..32 |-> (i * 7 + 165) % 256]
\* "250 AUTHCHALLENGE SERVERHASH=<hex> SERVERNONCE=<hex>\r\n"
REPLY_AUTHCHALLENGE ==
    <<50,53,48,32,65,85,84,72,67,72,65,76,76,69,78,71,69,32,83,69,82,86,69,82,72,65,83,72,61>> \o hex_encode_upper(ServerHash)
        \o <<32,83,69,82,86,69,82,78,79,78,67,69,61>> \o hex_encode_upper(ServerNonce) \o CRLF

UnauthPool == {REPLY_PROTOCOLINFO, REPLY_OK, REPLY_BAD_AUTH, REPLY_AUTHCHALLENGE}

\* pub const COOKIE_LENGTH: usize = 32
COOKIE_LENGTH == 32

\* the cookie of the cookie file: 32 bytes 0x42
Cookie32 == Repeat(66, COOKIE_LENGTH)
\* a cookie the caller built by hand, half as long
Cookie16 == Repeat(67, 16)

\* the auth data a caller may pass, as make_auth_data and a caller with a
\* password give them
AuthDataSet ==
    { TorAuthData("Null", <<>>),
      TorAuthData("HashedPassword", <<112,97,115,115,32,34,119,34>>),       \* pass "w"
      TorAuthData("Cookie", Cookie32),
      TorAuthData("SafeCookie", Cookie32) }

\* auth data of a caller that builds the cookie variants by hand
HandMadeAuthDataSet ==
    { TorAuthData("Cookie", Cookie16),
      TorAuthData("SafeCookie", Cookie16) }

\* UnauthenticatedConn::new(stream)
InitUnauth ==
    /\ inbox = <<>>
    /\ closed = FALSE
    /\ sent = 0
    /\ wire = <<>>
    /\ uconn = Some(UnauthenticatedConn_from(Conn_new("stream")))
    /\ aconn = None
    /\ call = Idle
    /\ ncalls = 0
    /\ trace = <<>>

NextUnauth ==
    \/ ServerSend(UnauthPool)
    \/ ServerClose
    \/ LoadProtocolInfo
    \/ ReadProtocolInfo
    \/ TakeProtocolInfo
    \/ \E data \in AuthDataSet : Authenticate(data)
    \/ AuthenticateChallenge
    \/ AuthenticateFinish
    \/ IntoAuthenticated

SpecUnauth == InitUnauth /\ [][NextUnauth]_vars

\* the unauthenticated connection of a caller that passes hand-made cookies:
\* TorAuthData::Cookie and SafeCookie hold a Cow<[u8]> of any length
NextHandMade ==
    \/ ServerSend(UnauthPool)
    \/ ServerClose
    \/ \E data \in HandMadeAuthDataSet : Authenticate(data)
    \/ AuthenticateChallenge
    \/ AuthenticateFinish
    \/ IntoAuthenticated

SpecHandMade == InitUnauth /\ [][NextHandMade]_vars

(***************************************************************************)
(* TorPreAuthInfo::make_auth_data (control/primitives/auth.rs).            *)
(***************************************************************************)
\* File::open(path) followed by read_exact into a buffer of COOKIE_LENGTH
\* bytes; file is None when the path cannot be opened, Some(contents)
\* otherwise
read_cookie_file(file) ==
    IF file = None \/ Len(file[1]) < COOKIE_LENGTH THEN Error("IOError")
    ELSE Ok(SubSeq(file[1], 1, COOKIE_LENGTH))

\* make_auth_data(&self); file is what the path self.cookie_file holds
make_auth_data(self, file) ==
    IF "Null" \in self.auth_methods THEN Ok(Some(TorAuthData("Null", <<>>)))
    ELSE IF "SafeCookie" \in self.auth_methods /\ self.cookie_file # None
        THEN IF read_cookie_file(file).ok
             THEN Ok(Some(TorAuthData("Cookie", read_cookie_file(file).val)))
             ELSE read_cookie_file(file)
    ELSE IF "Cookie" \in self.auth_methods /\ self.cookie_file # None
        THEN IF read_cookie_file(file).ok
             THEN Ok(Some(TorAuthData("Cookie", read_cookie_file(file).val)))
             ELSE read_cookie_file(file)
    ELSE Ok(None)

\* whether make_auth_data opens the cookie file
opens_cookie_file(self) ==
    /\ "Null" \notin self.auth_methods
    /\ self.cookie_file # None
    /\ ("SafeCookie" \in self.auth_methods \/ "Cookie" \in self.auth_methods)

\* what the path of the cookie file may hold: nothing, a file cut short, the
\* cookie, the cookie followed by more bytes
CookieFiles ==
    { None, Some(Repeat(66, 16)), Some(Cookie32), Some(Cookie32 \o <<10>>) }

\* get_protocol_info().make_auth_data(): the call, the read of the cookie
\* file when there is one, and the return
MakeAuthData ==
    /\ uconn # None
    /\ call = Idle
    /\ uconn[1].protocol_info # None
    /\ ncalls < MaxCalls
    /\ ncalls' = ncalls + 1
    /\ \E self \in {uconn[1].protocol_info[1]} :
       \E file \in (IF opens_cookie_file(self) THEN CookieFiles ELSE {None}) :
       \E res \in {make_auth_data(self, file)} :
          trace' = trace \o
              (IF opens_cookie_file(self)
               THEN <<CallEntry("make_auth_data"),
                      [RetNow("File::open", IF file = None THEN Error("IOError") ELSE Ok(<<>>))
                          EXCEPT !.ev = "file",
                                 !.via = self.cookie_file[1],
                                 !.bytes = IF file = None THEN <<>> ELSE file[1]],
                      RetNow("make_auth_data", res)>>
               ELSE <<CallEntry("make_auth_data"), RetNow("make_auth_data", res)>>)
    /\ UNCHANGED <<inbox, closed, sent, wire, uconn, aconn, call>>

\* the methods a daemon may advertise and the cookie file it may name
AuthMethodSets == (SUBSET {"Null", "HashedPassword", "Cookie", "SafeCookie"}) \ {{}}
\* "/c"
CookiePaths == {None, Some(<<47, 99>>)}

\* a connection that has loaded its protocol info
InitMakeAuthData ==
    /\ inbox = <<>>
    /\ closed = FALSE
    /\ sent = 0
    /\ wire = <<>>
    /\ \E auth_methods \in AuthMethodSets : \E cookie_file \in CookiePaths :
        uconn = Some([UnauthenticatedConn_from(Conn_new("stream")) EXCEPT
                        !.was_protocol_info_loaded = TRUE,
                        !.protocol_info =
                            Some(TorPreAuthInfo(auth_methods, cookie_file,
                                                <<48, 46, 52>>))])       \* "0.4"
    /\ aconn = None
    /\ call = Idle
    /\ ncalls = 0
    /\ trace = <<>>

NextMakeAuthData == MakeAuthData

SpecMakeAuthData == InitMakeAuthData /\ [][NextMakeAuthData]_vars

(***************************************************************************)
(* AuthenticatedConn (control/conn/authenticated_conn.rs).                 *)
(***************************************************************************)
\* set_async_event_handler(handler)
SetAsyncEventHandler(handler) ==
    /\ aconn # None
    /\ call = Idle
    /\ aconn' = Some([aconn[1] EXCEPT !.async_event_handler = handler])
    /\ UNCHANGED <<inbox, closed, sent, wire, uconn, call, ncalls, trace>>

\* a faulty handle_async_event that drops the error of the handler
handle_async_event_dropping_error(async_event_handler, outcome) == Ok(<<>>)

\* handle_async_event: outcome is what the future of the handler gives for
\* the event; without a handler the event is dropped
handle_async_event(async_event_handler, outcome) ==
    IF async_event_handler # None /\ ~outcome.ok THEN outcome ELSE Ok(<<>>)

\* a faulty recv_response that does not loop: an event is returned as the
\* reply of the command
recv_response_round_returning_event(r) ==
    IF r.st = "err"
        THEN [next |-> "return", res |-> Error(r.err), event |-> <<>>]
    ELSE [next |-> "return", res |-> Ok(<<r.code, r.lines>>), event |-> <<>>]

\* one round of the loop of recv_response on the result r of receive_data:
\* the next thing the loop does, with the event it hands to
\* handle_async_event or the result it returns
recv_response_round(r) ==
    IF r.st = "err"
        THEN [next |-> "return", res |-> Error(r.err), event |-> <<>>]
    ELSE IF r.code = 650
        THEN [next |-> "handle_async_event", res |-> Ok(<<>>), event |-> r.lines]
    ELSE [next |-> "return", res |-> Ok(<<r.code, r.lines>>), event |-> <<>>]

\* the end of drop_guards, take_ownership and drop_ownership: code is the
\* status recv_response returned
unit_command_result(code) ==
    IF code # 250 THEN ErrInvalidResponseCode(code) ELSE Ok(<<>>)

(***************************************************************************)
(* The replies of GETCONF and GETINFO.  A HashMap<String, Vec<T>> is a     *)
(* function from its keys to the sequences of their values; the empty map  *)
(* is the function of the empty domain, <<>>.                              *)
(***************************************************************************)
HashMap_new == <<>>

\* result.get_mut(k) { push(v) } else { insert(k, vec![v]) }
push_value(result, k, v) ==
    [x \in DOMAIN result \cup {k} |->
        IF x = k THEN (IF k \in DOMAIN result THEN Append(result[k], v) ELSE <<v>>)
        ELSE result[x]]

\* the value of a KEY=VALUE line of a GETCONF reply: unq is
\* unquote_string(v); None for Err(InvalidFormat)
conf_value(v, unq) ==
    IF unq.offset # None /\ unq.ok /\ unq.offset[1] = Len(v) - 1 THEN Some(unq.val)
    ELSE IF unq.offset = None /\ unq.ok THEN Some(unq.val)
    ELSE None

\* one line of a GETCONF reply: None for Err(InvalidFormat), otherwise
\* Some(<<key, Option<value>>>); kv is parse_single_key_value(line)
conf_line(line, kv) ==
    IF \A i \in 1..Len(line) : line[i] # 61 THEN Some(<<line, None>>)
    ELSE IF kv = None THEN None
    ELSE IF conf_value(kv[1][2], unquote_string(kv[1][2])) = None THEN None
    ELSE Some(<<kv[1][1], conf_value(kv[1][2], unquote_string(kv[1][2]))>>)

RECURSIVE conf_lines(_, _, _, _)
\* the loop of read_get_conf_response over the lines from the i-th on; line
\* is conf_line of the i-th line
conf_lines(res, i, result, line) ==
    IF line = None THEN Error("InvalidFormat")
    ELSE IF i + 1 > Len(res) THEN Ok(push_value(result, line[1][1], line[1][2]))
    ELSE conf_lines(res, i + 1, push_value(result, line[1][1], line[1][2]),
                    conf_line(res[i + 1], parse_single_key_value(res[i + 1])))

\* read_get_conf_response on the (code, res) of recv_response
read_get_conf_response(code, res) ==
    IF code # 250 THEN ErrInvalidResponseCode(code)
    ELSE conf_lines(res, 1, HashMap_new, conf_line(res[1], parse_single_key_value(res[1])))

to_ascii_uppercase(c) == IF c >= 97 /\ c <= 122 THEN c - 32 ELSE c

\* the comparison of get_conf between the key of the reply and the option
eq_ignore_ascii_case(k, config_option) ==
    /\ Len(k) = Len(config_option)
    /\ \A i \in 1..Len(k) :
        to_ascii_uppercase(k[i]) = to_ascii_uppercase(config_option[i])

\* get_conf_result without the comparison of the key with the option
get_conf_result_any_key(config_option, res) ==
    IF ~res.ok THEN res
    ELSE IF Cardinality(DOMAIN res.val) # 1 THEN Error("InvalidFormat")
    ELSE Ok(res.val[CHOOSE k \in DOMAIN res.val : TRUE])

\* the end of get_conf: res is the result of read_get_conf_response
get_conf_result(config_option, res) ==
    IF ~res.ok THEN res
    ELSE IF Cardinality(DOMAIN res.val) # 1 THEN Error("InvalidFormat")
    ELSE IF \E k \in DOMAIN res.val : eq_ignore_ascii_case(k, config_option)
         THEN Ok(res.val[CHOOSE k \in DOMAIN res.val : TRUE])
         ELSE Error("InvalidFormat")

\* "OK"
OK_LINE == <<79,75>>

RECURSIVE info_lines(_, _, _)
\* the loop of read_get_info_response over res.into_iter().take(res_len - 1)
\* from the i-th line on
info_lines(res, i, result) ==
    IF i > Len(res) - 1 THEN Ok(result)
    ELSE IF parse_single_key_value(res[i]) = None THEN Error("InvalidFormat")
    ELSE info_lines(res, i + 1,
            push_value(result, parse_single_key_value(res[i])[1][1],
                               parse_single_key_value(res[i])[1][2]))

\* read_get_info_response on the (code, res) of recv_response; receive_data
\* returns at least the final line, so that res is not empty
read_get_info_response(code, res) ==
    IF code # 250 THEN ErrInvalidResponseCode(code)
    ELSE IF res[Len(res)] # OK_LINE THEN Error("InvalidFormat")
    ELSE info_lines(res, 1, HashMap_new)

\* a faulty end of get_info_multiple that does not count the values
get_info_multiple_result_ignoring_counts(keys, res) ==
    IF ~res.ok THEN res
    ELSE IF Cardinality(DOMAIN res.val) # Cardinality(DOMAIN keys) THEN Error("InvalidFormat")
    ELSE IF \A key \in DOMAIN keys : key \in DOMAIN res.val
         THEN Ok(res.val)
         ELSE Error("InvalidFormat")

\* the end of get_info_multiple: keys counts the requested options, res is
\* the result of read_get_info_response
get_info_multiple_result(keys, res) ==
    IF ~res.ok THEN res
    ELSE IF Cardinality(DOMAIN res.val) # Cardinality(DOMAIN keys) THEN Error("InvalidFormat")
    ELSE IF \A key \in DOMAIN keys :
                key \in DOMAIN res.val /\ Len(res.val[key]) = keys[key]
         THEN Ok(res.val)
         ELSE Error("InvalidFormat")

\* what a command returns for the (code, lines) recv_response gave it
command_result(op, args, code, lines) ==
    IF op = "get_conf" THEN get_conf_result(args, read_get_conf_response(code, lines))
    ELSE IF op = "get_info_multiple"
        THEN get_info_multiple_result(args, read_get_info_response(code, lines))
    ELSE unit_command_result(code)

\* a command that writes `request` and then calls recv_response
WriteCommand(op, request) ==
    /\ aconn # None
    /\ call = Idle
    /\ ncalls < MaxCalls
    /\ ncalls' = ncalls + 1
    /\ \E written \in write_data_outcomes :
       IF written
       THEN /\ wire' = Append(wire, request)
            /\ call' = [Idle EXCEPT !.op = op, !.pc = "recv_response"]
            /\ trace' = trace \o <<CallEntry(op), WriteEntry(op, request)>>
       ELSE /\ trace' = trace \o <<CallEntry(op), RetNow(op, Error("IOError"))>>
            /\ UNCHANGED <<wire, call>>
    /\ UNCHANGED <<inbox, closed, sent, uconn, aconn>>

\* b"DROPGUARDS\r\n"
DROPGUARDS_REQUEST == <<68,82,79,80,71,85,65,82,68,83,13,10>>

DropGuards == WriteCommand("drop_guards", DROPGUARDS_REQUEST)

\* recv_response, one round of its loop: a reply is read; an event goes to
\* handle_async_event, which returns at once when no handler is set
RecvResponse ==
    /\ call.pc = "recv_response"
    /\ \E r \in {Read} :
       /\ r.st # "pending"
       /\ \E round \in {recv_response_round(r)} :
          \E handler \in {aconn[1].async_event_handler} :
          \E res \in {IF round.next = "return" /\ round.res.ok
                      THEN command_result(call.op, call.args,
                                          round.res.val[1], round.res.val[2])
                      ELSE round.res} :
          /\ inbox' = SubSeq(inbox, r.used + 1, Len(inbox))
          /\ IF round.next = "handle_async_event"
             THEN IF handler # None
                  THEN /\ call' = [call EXCEPT !.pc = "handle_async_event",
                                               !.event = round.event]
                       /\ trace' = Append(trace, ReadEntry("recv_response", r))
                  ELSE /\ call' = call
                       /\ trace' = Append(trace, ReadEntry("recv_response", r))
             ELSE /\ call' = Idle
                  /\ trace' = trace \o <<ReadEntry("recv_response", r), RetEntry(res)>>
    /\ UNCHANGED <<closed, sent, wire, uconn, aconn, ncalls>>

\* what the future of the handler may give: Ok(()) or a ConnError of the
\* handler's choice
HandlerOutcomes == {Ok(<<>>), Error("InvalidFormat"), Error("TooManyBytesRead")}

\* handle_async_event with a handler: the handler runs on the event, and an
\* error of it ends recv_response and the command
HandleAsyncEvent ==
    /\ call.pc = "handle_async_event"
    /\ \E outcome \in HandlerOutcomes :
       \E res \in {handle_async_event(aconn[1].async_event_handler, outcome)} :
          IF res.ok
          THEN /\ call' = [call EXCEPT !.pc = "recv_response", !.event = <<>>]
               /\ trace' = Append(trace, EventEntry(call.event, outcome))
          ELSE /\ call' = Idle
               /\ trace' = trace \o <<EventEntry(call.event, outcome), RetEntry(res)>>
    /\ UNCHANGED <<inbox, closed, sent, wire, uconn, aconn, ncalls>>

\* is_valid_keyword (utils/mod.rs)
is_valid_keyword(config_option) ==
    /\ config_option # <<>>
    /\ \A i \in 1..Len(config_option) :
        is_ascii_uppercase(config_option[i]) \/ config_option[i] = 95

\* b"SETCONF"
SETCONF == <<83,69,84,67,79,78,70>>

RECURSIVE set_conf_options_separating(_, _, _)
\* a faulty loop that puts its space between the options only
set_conf_options_separating(options, i, text) ==
    IF i > Len(options) THEN Some(text)
    ELSE IF ~is_valid_keyword(options[i].k) THEN None
    ELSE set_conf_options_separating(options, i + 1,
            text \o (IF i > 1 THEN <<32>> ELSE <<>>) \o options[i].k
                 \o (IF options[i].value # None
                     THEN <<61>> \o quote_string(options[i].value[1])
                     ELSE <<>>))

\* the loop of set_conf_multiple over its options from the i-th on: None
\* when a key is no keyword, otherwise the call with the options appended
RECURSIVE set_conf_options(_, _, _)
set_conf_options(options, i, text) ==
    IF i > Len(options) THEN Some(text)
    ELSE LET k == options[i].k
             value == options[i].value
         IN IF ~is_valid_keyword(k) THEN None
            ELSE set_conf_options(options, i + 1,
                    text \o <<32>> \o k
                         \o (IF value # None THEN <<61>> \o quote_string(value[1])
                             ELSE <<>>))

\* the end of set_conf_multiple: code is the status receive_data returned
set_conf_result(code) ==
    IF code # 250 THEN ErrInvalidResponseCode(code) ELSE Ok(<<>>)

\* set_conf_multiple up to its read: the options are checked and written
SetConfMultiple(options) ==
    /\ aconn # None
    /\ call = Idle
    /\ ncalls < MaxCalls
    /\ ncalls' = ncalls + 1
    /\ \E op \in {"set_conf_multiple"} :
       \E text \in {set_conf_options(options, 1, SETCONF)} :
          IF text = None
          THEN /\ trace' = trace \o <<CallEntry(op),
                                      RetNow(op, Error("InvalidKeywordValue"))>>
               /\ UNCHANGED <<wire, call>>
          ELSE IF options = <<>>
          THEN /\ trace' = trace \o <<CallEntry(op), RetNow(op, Ok(<<>>))>>
               /\ UNCHANGED <<wire, call>>
          ELSE \E written \in write_data_outcomes :
               IF written
               THEN /\ wire' = Append(wire, text[1] \o CRLF)
                    /\ call' = [Idle EXCEPT !.op = op, !.pc = "set_conf_receive_data"]
                    /\ trace' = trace \o <<CallEntry(op), WriteEntry(op, text[1] \o CRLF)>>
               ELSE /\ trace' = trace \o <<CallEntry(op), RetNow(op, Error("IOError"))>>
                    /\ UNCHANGED <<wire, call>>
    /\ UNCHANGED <<inbox, closed, sent, uconn, aconn>>

\* set_conf(option, value)
SetConf(option, value) == SetConfMultiple(<<[k |-> option, value |-> value]>>)

\* set_conf_multiple, its read: self.conn.receive_data() is called, not
\* recv_response
SetConfReceiveData ==
    /\ call.pc = "set_conf_receive_data"
    /\ \E r \in {Read} :
       /\ r.st # "pending"
       /\ \E res \in {IF r.st = "err" THEN Error(r.err) ELSE set_conf_result(r.code)} :
          /\ inbox' = SubSeq(inbox, r.used + 1, Len(inbox))
          /\ trace' = trace \o <<ReadEntry("receive_data", r), RetEntry(res)>>
          /\ call' = Idle
    /\ UNCHANGED <<closed, sent, wire, uconn, aconn, ncalls>>

(***************************************************************************)
(* The commands that check their arguments.  Each of them is, up to its    *)
(* recv_response, a sequence of at most two steps: it may write a request  *)
(* and it may return a result; a command that does not return goes on to   *)
(* recv_response with args.                                                *)
(***************************************************************************)
\* return Err(ConnError::AuthenticatedConnError(e)) before the write
Rejected(e) == [request |-> None, res |-> Some(Error(e)), args |-> <<>>]
\* return Ok(val) before the write
Returned(val) == [request |-> None, res |-> Some(Ok(val)), args |-> <<>>]
\* write_data(request), then the read of the reply
Request(request, args) == [request |-> Some(request), res |-> None, args |-> args]

\* a command with the steps c
Command(op, c) ==
    /\ aconn # None
    /\ call = Idle
    /\ ncalls < MaxCalls
    /\ ncalls' = ncalls + 1
    /\ IF c.request = None
       THEN /\ trace' = trace \o <<CallEntry(op), RetNow(op, c.res[1])>>
            /\ UNCHANGED <<wire, call>>
       ELSE \E written \in write_data_outcomes :
            IF ~written
            THEN /\ trace' = trace \o <<CallEntry(op), RetNow(op, Error("IOError"))>>
                 /\ UNCHANGED <<wire, call>>
            ELSE /\ wire' = Append(wire, c.request[1])
                 /\ IF c.res = None
                    THEN /\ call' = [Idle EXCEPT !.op = op, !.pc = "recv_response",
                                                 !.args = c.args]
                         /\ trace' = trace \o <<CallEntry(op), WriteEntry(op, c.request[1])>>
                    ELSE /\ call' = call
                         /\ trace' = trace \o <<CallEntry(op), WriteEntry(op, c.request[1]),
                                                RetNow(op, c.res[1])>>
    /\ UNCHANGED <<inbox, closed, sent, uconn, aconn>>

\* "GETCONF "
GETCONF_PREFIX == <<71,69,84,67,79,78,70,32>>

\* get_conf up to its read
get_conf_call(config_option) ==
    IF ~is_valid_keyword(config_option) THEN Rejected("InvalidKeywordValue")
    ELSE Request(GETCONF_PREFIX \o config_option \o CRLF, config_option)

GetConf(config_option) == Command("get_conf", get_conf_call(config_option))

\* "RESOLVE "
RESOLVE_PREFIX == <<82,69,83,79,76,86,69,32>>

\* resolve up to its read; is_valid_hostname is crate::utils::is_valid_hostname
resolve_call(hostname, is_valid_hostname) ==
    IF is_valid_hostname[hostname] THEN Rejected("InvalidHostnameValue")
    ELSE Request(RESOLVE_PREFIX \o hostname \o CRLF, <<>>)

Resolve(hostname, is_valid_hostname) ==
    Command("resolve", resolve_call(hostname, is_valid_hostname))

\* "GETINFO"
GETINFO == <<71,69,84,73,78,70,79>>

\* keys.get_mut(option) { *counter += 1 } else { keys.insert(option, 1) }
count_key(keys, option) ==
    [x \in DOMAIN keys \cup {option} |->
        IF x = option THEN (IF option \in DOMAIN keys THEN keys[option] + 1 ELSE 1)
        ELSE keys[x]]

RECURSIVE get_info_options(_, _, _, _, _)
\* the loop of get_info_multiple over its options from the i-th on: None
\* when an option is refused, otherwise the call and the counted keys.
\* utils::is_valid_option is imported by the file, and the sources hold no
\* definition of it: is_valid_option is here any function from the options
\* to BOOLEAN
get_info_options(options, i, text, keys, is_valid_option) ==
    IF i > Len(options) THEN Some(<<text, keys>>)
    ELSE IF ~is_valid_option[options[i]] THEN None
    ELSE get_info_options(options, i + 1, text \o <<32>> \o options[i],
                          count_key(keys, options[i]), is_valid_option)

\* get_info_multiple up to its read: looped is the result of the loop
get_info_multiple_call(looped) ==
    IF looped = None THEN Rejected("InvalidKeywordValue")
    ELSE IF Cardinality(DOMAIN looped[1][2]) = 0 THEN Returned(HashMap_new)
    ELSE Request(looped[1][1] \o CRLF, looped[1][2])

GetInfoMultiple(options, is_valid_option) ==
    Command("get_info_multiple",
            get_info_multiple_call(
                get_info_options(options, 1, GETINFO, HashMap_new, is_valid_option)))

\* "SETEVENTS", " EXTENDED"
SETEVENTS == <<83,69,84,69,86,69,78,84,83>>
EXTENDED == <<32,69,88,84,69,78,68,69,68>>

RECURSIVE set_events_kinds(_, _, _, _)
\* the loop of set_events over its kinds from the i-th on: None when a kind
\* is refused, otherwise the request with the kinds appended.
\* utils::is_valid_event is imported by the file, and the sources hold no
\* definition of it: is_valid_event is here any function from the kinds to
\* BOOLEAN
set_events_kinds(kinds, i, req, is_valid_event) ==
    IF i > Len(kinds) THEN Some(req)
    ELSE IF ~is_valid_event[kinds[i]] THEN None
    ELSE set_events_kinds(kinds, i + 1, req \o <<32>> \o kinds[i], is_valid_event)

\* set_events up to its read: req is the result of the loop
set_events_call(req) ==
    IF req = None THEN Rejected("InvalidEventName")
    ELSE Request(req[1] \o CRLF, <<>>)

SetEvents(extended, kinds, is_valid_event) ==
    Command("set_events",
            set_events_call(
                set_events_kinds(kinds, 1,
                                 SETEVENTS \o (IF extended THEN EXTENDED ELSE <<>>),
                                 is_valid_event)))

\* "DEL_ONION "
DEL_ONION_PREFIX == <<68,69,76,95,79,78,73,79,78,32>>

\* 'a'..='z' | 'A'..='Z' | '0'..='9' | '/' | '='
is_onion_identifier_char(c) ==
    \/ (c >= 97 /\ c <= 122) \/ (c >= 65 /\ c <= 90) \/ (c >= 48 /\ c <= 57)
    \/ c = 47 \/ c = 61

\* a faulty del_onion that writes its request before it checks the identifier
del_onion_call_writing_first(identifier_without_dot_onion) ==
    IF \E i \in 1..Len(identifier_without_dot_onion) :
            ~is_onion_identifier_char(identifier_without_dot_onion[i])
    THEN [request |-> Some(DEL_ONION_PREFIX \o identifier_without_dot_onion \o CRLF),
          res |-> Some(Error("InvalidOnionServiceIdentifier")), args |-> <<>>]
    ELSE Request(DEL_ONION_PREFIX \o identifier_without_dot_onion \o CRLF, <<>>)

\* del_onion up to its read
del_onion_call(identifier_without_dot_onion) ==
    IF \E i \in 1..Len(identifier_without_dot_onion) :
            ~is_onion_identifier_char(identifier_without_dot_onion[i])
    THEN Rejected("InvalidOnionServiceIdentifier")
    ELSE Request(DEL_ONION_PREFIX \o identifier_without_dot_onion \o CRLF, <<>>)

DelOnion(identifier_without_dot_onion) ==
    Command("del_onion", del_onion_call(identifier_without_dot_onion))

RECURSIVE to_string(_)
\* format!("{}", n) of an unsigned integer
to_string(n) ==
    IF n < 10 THEN <<48 + n>> ELSE to_string(n \div 10) \o <<48 + (n % 10)>>

\* format!("{}", address) of a SocketAddr::V4 [ip |-> four octets, port |-> u16]
SocketAddr_to_string(address) ==
    to_string(address.ip[1]) \o <<46>> \o to_string(address.ip[2]) \o <<46>>
        \o to_string(address.ip[3]) \o <<46>> \o to_string(address.ip[4])
        \o <<58>> \o to_string(address.port)

RECURSIVE join(_, _)
\* [&str]::join(sep)
join(parts, sep) ==
    IF parts = <<>> THEN <<>>
    ELSE IF Len(parts) = 1 THEN parts[1]
    ELSE parts[1] \o sep \o join(Tail(parts), sep)

\* the flags of setup_onion_service_call, in the order they are pushed
onion_flags(detach, non_anonymous, max_streams_close_circuit) ==
    <<<<68,105,115,99,97,114,100,80,75>>>>                                 \* "DiscardPK"
    \o (IF detach THEN <<<<68,101,116,97,99,104>>>> ELSE <<>>)             \* "Detach"
    \o (IF non_anonymous
        THEN <<<<78,111,110,65,110,111,110,121,109,111,117,115>>>>         \* "NonAnonymous"
        ELSE <<>>)
    \o (IF max_streams_close_circuit                                       \* "MaxStreamsCloseCircuit"
        THEN <<<<77,97,120,83,116,114,101,97,109,115,67,108,111,115,101,67,105,114,99,117,105,116>>>>
        ELSE <<>>)

RECURSIVE onion_listeners_comparing_neighbours(_, _, _, _)
\* a faulty loop that compares the port of a listener with the port of the
\* listener before it only
onion_listeners_comparing_neighbours(listeners, i, res, ports) ==
    IF i > Len(listeners)
        THEN (IF i = 1 THEN None ELSE Some(res \o <<32>>))
    ELSE IF i > 1 /\ listeners[i].port = listeners[i - 1].port THEN None
    ELSE onion_listeners_comparing_neighbours(listeners, i + 1,
            res \o (IF i > 1 THEN <<32>> ELSE <<>>)
                \o <<80,111,114,116,61>> \o to_string(listeners[i].port)
                \o <<44>> \o SocketAddr_to_string(listeners[i].address),
            ports \cup {listeners[i].port})

RECURSIVE onion_listeners(_, _, _, _)
\* the loop of setup_onion_service_call over its listeners from the i-th
\* on, with the ports seen so far: None for
\* Err(InvalidListenerSpecification), otherwise the call with the listeners
onion_listeners(listeners, i, res, ports) ==
    IF i > Len(listeners)
        THEN (IF i = 1 THEN None ELSE Some(res \o <<32>>))
    ELSE IF listeners[i].port \in ports THEN None
    ELSE onion_listeners(listeners, i + 1,
            res \o (IF i > 1 THEN <<32>> ELSE <<>>)
                \o <<80,111,114,116,61>> \o to_string(listeners[i].port)      \* "Port="
                \o <<44>> \o SocketAddr_to_string(listeners[i].address),
            ports \cup {listeners[i].port})

\* setup_onion_service_call: None for Err(InvalidListenerSpecification),
\* otherwise the call without its CRLF
setup_onion_service_call(is_rsa, key_blob, detach, non_anonymous, max_streams_close_circuit, max_num_streams, listeners) ==
    onion_listeners(listeners, 1,
        <<65,68,68,95,79,78,73,79,78,32>>                                   \* "ADD_ONION "
        \o (IF is_rsa THEN <<82,83,65,49,48,50,52>>                         \* "RSA1024"
            ELSE <<69,68,50,53,53,49,57,45,86,51>>)                         \* "ED25519-V3"
        \o <<58>> \o key_blob \o <<32>>
        \o <<70,108,97,103,115,61>>                                         \* "Flags="
        \o join(onion_flags(detach, non_anonymous, max_streams_close_circuit), <<32>>)
        \o <<32>>
        \o (IF max_num_streams # None
            THEN <<77,97,120,83,116,114,101,97,109,115,61>>                 \* "MaxStreams={} "
                 \o to_string(max_num_streams[1]) \o <<32>> \o <<32>>
            ELSE <<>>),
        {})

\* add_onion_v3 up to its read: res is the result of
\* setup_onion_service_call
add_onion_v3_call(res) ==
    IF res = None THEN Rejected("InvalidListenerSpecification")
    ELSE Request(res[1] \o CRLF, <<>>)

\* add_onion_v3; key_blob is key.as_tor_proto_encoded()
AddOnionV3(key_blob, detach, non_anonymous, max_streams_close_circuit, max_num_streams, listeners) ==
    Command("add_onion_v3",
            add_onion_v3_call(
                setup_onion_service_call(FALSE, key_blob, detach, non_anonymous,
                    max_streams_close_circuit, max_num_streams, listeners)))

(***************************************************************************)
(* The authenticated connection with its daemon: what the daemon may write *)
(* and what the caller may pass.                                           *)
(***************************************************************************)
\* "552 Unrecognized option\r\n"
REPLY_UNRECOGNIZED == <<53,53,50,32,85,110,114,101,99,111,103,110,105,122,101,100,32,111,112,116,105,111,110,13,10>>
\* "650 CIRC 1 LAUNCHED\r\n"
EVENT_CIRC == <<54,53,48,32,67,73,82,67,32,49,32,76,65,85,78,67,72,69,68,13,10>>
\* "650 BW 1 2\r\n"
EVENT_BW == <<54,53,48,32,66,87,32,49,32,50,13,10>>

AuthPool == {REPLY_OK, REPLY_UNRECOGNIZED, EVENT_CIRC, EVENT_BW}

\* "SOCKSPORT", "SocksPort" (no keyword for is_valid_keyword), "9050"
SetConfOptions ==
    { <<>>,
      <<[k |-> <<83,79,67,75,83,80,79,82,84>>, value |-> Some(<<57,48,53,48>>)]>>,
      <<[k |-> <<83,79,67,75,83,80,79,82,84>>, value |-> None], [k |-> <<83,111,99,107,115,80,111,114,116>>, value |-> None]>> }

\* AuthenticatedConn::from(Conn::new(stream))
InitAuth ==
    /\ inbox = <<>>
    /\ closed = FALSE
    /\ sent = 0
    /\ wire = <<>>
    /\ uconn = None
    /\ aconn = Some(AuthenticatedConn_from(Conn_new("stream")))
    /\ call = Idle
    /\ ncalls = 0
    /\ trace = <<>>

NextAuth ==
    \/ ServerSend(AuthPool)
    \/ ServerClose
    \/ \E handler \in {None, Some("handler")} : SetAsyncEventHandler(handler)
    \/ DropGuards
    \/ RecvResponse
    \/ HandleAsyncEvent
    \/ \E options \in SetConfOptions : SetConfMultiple(options)
    \/ SetConf(<<83,79,67,75,83,80,79,82,84>>, Some(<<57,48,53,48>>))
    \/ SetConfReceiveData

SpecAuth == InitAuth /\ [][NextAuth]_vars

(***************************************************************************)
(* The commands that check their arguments, called with arguments they     *)
(* accept and arguments they refuse.                                       *)
(***************************************************************************)
ValidationPool == {REPLY_OK, REPLY_UNRECOGNIZED}

\* "SOCKSPORT" and "SocksPort" (no keyword for is_valid_keyword)
KEYWORD == <<83,79,67,75,83,80,79,82,84>>
NO_KEYWORD == <<83,111,99,107,115,80,111,114,116>>

\* a list that is_valid_keyword accepts, and one it refuses at its second
\* option
ValidationSetConfOptions ==
    { <<[k |-> KEYWORD, value |-> Some(<<57,48,53,48>>)]>>,
      <<[k |-> KEYWORD, value |-> None], [k |-> NO_KEYWORD, value |-> None]>> }

\* "version", "a b"
InfoOptions == {<<118,101,114,115,105,111,110>>, <<97,32,98>>}
InfoOptionLists == {<<>>, <<<<118,101,114,115,105,111,110>>, <<97,32,98>>>>}

\* "CIRC"
EventKinds == {<<67,73,82,67>>}
EventKindLists == {<<>>, <<<<67,73,82,67>>>>}

\* "abc", "a\r\n"
OnionIdentifiers == {<<97,98,99>>, <<97,13,10>>}

\* "QUJD" stands for the encoded key
KEY_BLOB == <<81,85,74,68>>

\* 127.0.0.1:15787 and 127.0.0.1:8080
ADDRESS_1 == [ip |-> <<127,0,0,1>>, port |-> 15787]
ADDRESS_2 == [ip |-> <<127,0,0,1>>, port |-> 8080]

\* no listener, one listener, and two listeners of one port
ListenerLists ==
    { <<>>,
      <<[port |-> 15787, address |-> ADDRESS_1]>>,
      <<[port |-> 80, address |-> ADDRESS_1], [port |-> 80, address |-> ADDRESS_2]>> }

NextValidation ==
    \/ ServerSend(ValidationPool)
    \/ ServerClose
    \/ \E options \in ValidationSetConfOptions : SetConfMultiple(options)
    \/ SetConfReceiveData
    \/ \E config_option \in {KEYWORD, NO_KEYWORD} : GetConf(config_option)
    \/ \E options \in InfoOptionLists :
       \E is_valid_option \in [InfoOptions -> BOOLEAN] :
          GetInfoMultiple(options, is_valid_option)
    \/ \E kinds \in EventKindLists :
       \E is_valid_event \in [EventKinds -> BOOLEAN] :
          SetEvents(FALSE, kinds, is_valid_event)
    \/ \E identifier \in OnionIdentifiers : DelOnion(identifier)
    \/ \E listeners \in ListenerLists :
          AddOnionV3(KEY_BLOB, FALSE, FALSE, FALSE, None, listeners)
    \/ RecvResponse

SpecValidation == InitAuth /\ [][NextValidation]_vars

(***************************************************************************)
(* set_conf_multiple with no option, with one and with two options, with   *)
(* and without values.                                                     *)
(***************************************************************************)
\* "ORPORT"
KEYWORD_2 == <<79,82,80,79,82,84>>

\* no option; SOCKSPORT=9050 and ORPORT; ORPORT; SOCKSPORT=a"b; and a list
\* whose second key is no keyword
SetConfLists ==
    { <<>>,
      <<[k |-> KEYWORD, value |-> Some(<<57,48,53,48>>)], [k |-> KEYWORD_2, value |-> None]>>,
      <<[k |-> KEYWORD_2, value |-> None]>>,
      <<[k |-> KEYWORD, value |-> Some(<<97,34,98>>)]>>,
      <<[k |-> KEYWORD, value |-> None], [k |-> NO_KEYWORD, value |-> None]>> }

NextSetConf ==
    \/ ServerSend(ValidationPool)
    \/ ServerClose
    \/ \E options \in SetConfLists : SetConfMultiple(options)
    \/ SetConfReceiveData

SpecSetConf == InitAuth /\ [][NextSetConf]_vars

(***************************************************************************)
(* get_info_multiple and the replies to GETINFO.                           *)
(***************************************************************************)
\* the replies of test_can_parse_getinfo_response: one value; no final OK
\* line; two values of one key; values of two keys
INFO_ONE == <<50,53,48,45,118,101,114,115,105,111,110,61,49,46,50,46,51,46,52,13,10,50,53,48,32,79,75,13,10>>
INFO_NO_OK == <<50,53,48,32,118,101,114,115,105,111,110,61,49,46,50,46,51,46,52,13,10>>
INFO_TWICE == <<50,53,48,45,118,101,114,115,105,111,110,61,49,46,50,46,51,46,52,13,10,50,53,48,45,118,101,114,115,105,111,110,61,52,46,51,46,50,46,49,13,10,50,53,48,32,79,75,13,10>>
INFO_TWO_KEYS == <<50,53,48,45,118,101,114,115,105,111,110,61,49,46,50,46,51,46,52,13,10,50,53,48,45,97,32,98,61,52,46,51,46,50,46,49,13,10,50,53,48,32,79,75,13,10>>
\* "250-version\r\n250 OK\r\n": a line without '='
INFO_NO_VALUE == <<50,53,48,45,118,101,114,115,105,111,110,13,10,50,53,48,32,79,75,13,10>>

InfoPool ==
    {INFO_ONE, INFO_NO_OK, INFO_TWICE, INFO_TWO_KEYS, INFO_NO_VALUE, REPLY_UNRECOGNIZED}

\* no option; "version"; "version" twice; "version" and "a b"
GetInfoLists ==
    { <<>>,
      <<<<118,101,114,115,105,111,110>>>>,
      <<<<118,101,114,115,105,111,110>>, <<118,101,114,115,105,111,110>>>>,
      <<<<118,101,114,115,105,111,110>>, <<97,32,98>>>> }

NextGetInfo ==
    \/ ServerSend(InfoPool)
    \/ \E options \in GetInfoLists :
       \E is_valid_option \in [InfoOptions -> BOOLEAN] :
          GetInfoMultiple(options, is_valid_option)
    \/ RecvResponse

SpecGetInfo == InitAuth /\ [][NextGetInfo]_vars

(***************************************************************************)
(* get_conf and the replies of GETCONF.  The replies: the option at its    *)
(* default; the two values of the source's test; a quoted value and a      *)
(* default under the key in another case; two keys; a quoted value         *)
(* followed by another character; an error reply.                          *)
(***************************************************************************)
\* "250 SOCKSPORT\r\n"
CONF_DEFAULT == <<50,53,48,32,83,79,67,75,83,80,79,82,84,13,10>>
\* "250-SOCKSPORT=1234\r\n250 SOCKSPORT=5678\r\n"
CONF_TWO_VALUES == <<50,53,48,45,83,79,67,75,83,80,79,82,84,61,49,50,51,52,13,10,50,53,48,32,83,79,67,75,83,80,79,82,84,61,53,54,55,56,13,10>>
\* "250-SocksPort=\"12\"\r\n250 SocksPort\r\n"
CONF_MIXED == <<50,53,48,45,83,111,99,107,115,80,111,114,116,61,34,49,50,34,13,10,50,53,48,32,83,111,99,107,115,80,111,114,116,13,10>>
\* "250-SOCKSPORT=1\r\n250 ORPORT=2\r\n"
CONF_TWO_KEYS == <<50,53,48,45,83,79,67,75,83,80,79,82,84,61,49,13,10,50,53,48,32,79,82,80,79,82,84,61,50,13,10>>
\* "250 SOCKSPORT=\"12\"x\r\n"
CONF_BAD_QUOTE == <<50,53,48,32,83,79,67,75,83,80,79,82,84,61,34,49,50,34,120,13,10>>

ConfPool ==
    {CONF_DEFAULT, CONF_TWO_VALUES, CONF_MIXED, CONF_TWO_KEYS, CONF_BAD_QUOTE, REPLY_UNRECOGNIZED}

ConfOptions == {KEYWORD, KEYWORD_2}

NextGetConf ==
    \/ ServerSend(ConfPool)
    \/ \E config_option \in ConfOptions : GetConf(config_option)
    \/ RecvResponse

SpecGetConf == InitAuth /\ [][NextGetConf]_vars

(***************************************************************************)
(* add_onion_v3.  The listener lists: none; the listener of port 15787;    *)
(* two ports; one port twice with two addresses and with one address; one  *)
(* port as the first and the third listener; one port as the second and    *)
(* the third listener.                                                     *)
(***************************************************************************)
LISTENER_15787 == [port |-> 15787, address |-> ADDRESS_1]
LISTENER_80_1 == [port |-> 80, address |-> ADDRESS_1]
LISTENER_80_2 == [port |-> 80, address |-> ADDRESS_2]
LISTENER_81 == [port |-> 81, address |-> ADDRESS_2]

OnionListenerLists ==
    { <<>>,
      <<LISTENER_15787>>,
      <<LISTENER_80_1, LISTENER_81>>,
      <<LISTENER_80_1, LISTENER_80_2>>,
      <<LISTENER_80_1, LISTENER_80_1>>,
      <<LISTENER_80_1, LISTENER_81, LISTENER_80_2>>,
      <<LISTENER_81, LISTENER_80_1, LISTENER_80_1>> }

\* detach, non_anonymous, max_streams_close_circuit
OnionFlagChoices == {<<FALSE, FALSE, FALSE>>, <<TRUE, FALSE, TRUE>>}

MaxNumStreamsChoices == {None, Some(3)}

NextAddOnion ==
    \/ ServerSend(ValidationPool)
    \/ \E flags \in OnionFlagChoices, max_num_streams \in MaxNumStreamsChoices :
       \E listeners \in OnionListenerLists :
          AddOnionV3(KEY_BLOB, flags[1], flags[2], flags[3], max_num_streams, listeners)
    \/ RecvResponse

SpecAddOnion == InitAuth /\ [][NextAddOnion]_vars

(***************************************************************************)
(* resolve.  The hostnames "torproject.org" and "a b"; what                *)
(* is_valid_hostname says about them is any of the four choices.           *)
(***************************************************************************)
Hostnames == {<<116,111,114,112,114,111,106,101,99,116,46,111,114,103>>, <<97,32,98>>}

NextResolve ==
    \/ ServerSend(ValidationPool)
    \/ ServerClose
    \/ \E hostname \in Hostnames :
       \E is_valid_hostname \in [Hostnames -> BOOLEAN] :
          Resolve(hostname, is_valid_hostname)
    \/ RecvResponse

SpecResolve == InitAuth /\ [][NextResolve]_vars

(***************************************************************************)
(* quote_string and unquote_string (utils/quoted.rs) applied to texts.     *)
(* The text is drawn at the start; quote_string takes any bytes,           *)
(* unquote_string a &str, that is valid UTF-8.  The bytes of the texts:    *)
(* 0, 1 and 8 (octal escapes), '0', '"', '\', and 0xC5 0x81, the letter    *)
(* L with stroke, each half of which is invalid UTF-8.                     *)
(***************************************************************************)
MaxLen == 3

QuoteBytes == {0, 1, 8, 48, 34, 92, 197, 129}

\* the byte sequences of at most n bytes
ByteSeqs(bytes, n) == UNION {[1..k -> bytes] : k \in 0..n}

InitQuote ==
    /\ inbox = <<>>
    /\ closed = FALSE
    /\ sent = 0
    /\ wire = <<>>
    /\ uconn = None
    /\ aconn = None
    /\ \E text \in ByteSeqs(QuoteBytes, MaxLen) : call = [Idle EXCEPT !.args = text]
    /\ ncalls = 0
    /\ trace = <<>>

\* quote_string(text) of the text drawn
QuoteString ==
    /\ ncalls < MaxCalls
    /\ ncalls' = ncalls + 1
    /\ trace' = Append(trace, [RetNow("quote_string", Ok(quote_string(call.args)))
                                  EXCEPT !.bytes = call.args])
    /\ UNCHANGED <<inbox, closed, sent, wire, uconn, aconn, call>>

\* debug_assert!(text.as_bytes()[idx] == b'"') on the index the first loop
\* of unquote_string found
debug_assert_at_end_of_quoted_string(text, end_of_quoted_string) ==
    end_of_quoted_string = None \/ text[end_of_quoted_string[1] + 1] = 34

\* unquote_string(text) in a build with or without debug assertions: a
\* panic when the assertion fails, otherwise what the function returns
unquote_string_call(debug_assertions, text) ==
    IF /\ debug_assertions
       /\ Len(text) >= 2
       /\ ~debug_assert_at_end_of_quoted_string(text,
              find_end_of_quoted_string(text, 1 + len_utf8(text[1]), 0, FALSE))
    THEN Error("panic")
    ELSE Ok(unquote_string(text))

\* the results of quote_string so far
Quoted == {trace[i].res.val : i \in {j \in 1..Len(trace) : trace[j].op = "quote_string"}}

\* unquote_string of the text drawn or of a result of quote_string
UnquoteString ==
    /\ ncalls < MaxCalls
    /\ ncalls' = ncalls + 1
    /\ \E text \in {call.args} \cup Quoted :
       \E debug_assertions \in BOOLEAN :
          /\ is_valid_utf8(text)
          /\ trace' = Append(trace,
                [RetNow("unquote_string", unquote_string_call(debug_assertions, text))
                    EXCEPT !.bytes = text,
                           !.via = IF debug_assertions THEN "debug" ELSE "release"])
    /\ UNCHANGED <<inbox, closed, sent, wire, uconn, aconn, call>>

NextQuote ==
    \/ QuoteString
    \/ UnquoteString

SpecQuote == InitQuote /\ [][NextQuote]_vars

(***************************************************************************)
(* parse_single_key_value (utils/key_value.rs) applied to texts of the     *)
(* bytes '=', 'K', '7', ' ', '"', '!' and 0xC5 0x81 that are valid UTF-8.  *)
(***************************************************************************)
KeyValueBytes == {61, 75, 55, 32, 34, 33, 197, 129}

InitKeyValue ==
    /\ inbox = <<>>
    /\ closed = FALSE
    /\ sent = 0
    /\ wire = <<>>
    /\ uconn = None
    /\ aconn = None
    /\ \E text \in ByteSeqs(KeyValueBytes, MaxLen) :
        /\ is_valid_utf8(text)
        /\ call = [Idle EXCEPT !.args = text]
    /\ ncalls = 0
    /\ trace = <<>>

\* parse_single_key_value(text) of the text drawn
ParseSingleKeyValue ==
    /\ ncalls < MaxCalls
    /\ ncalls' = ncalls + 1
    /\ \E res \in {parse_single_key_value(call.args)} :
        trace' = Append(trace,
            [RetNow("parse_single_key_value", IF res = None THEN Error("()") ELSE Ok(res[1]))
                EXCEPT !.bytes = call.args])
    /\ UNCHANGED <<inbox, closed, sent, wire, uconn, aconn, call>>

NextKeyValue == ParseSingleKeyValue

SpecKeyValue == InitKeyValue /\ [][NextKeyValue]_vars

(***************************************************************************)
(* OnionAddressV3 (onion/v3/onion.rs).  A TorPublicKeyV3 is its 32 bytes,  *)
(* an OnionAddressV3 its 34 bytes, a String its bytes.                     *)
(***************************************************************************)
TORV3_ONION_ADDRESS_LENGTH_BYTES == 34

\* the RFC 4648 alphabet of base32: "ABCDEFGHIJKLMNOPQRSTUVWXYZ234567"
RFC4648_ALPHABET == <<65,66,67,68,69,70,71,72,73,74,75,76,77,78,79,80,81,82,83,84,85,86,87,88,89,90,50,51,52,53,54,55>>

\* the k-th bit (from 0, most significant first) of a sequence of units of
\* `width` bits each; 0 after the end
bit_at(units, width, k) ==
    IF k >= width * Len(units) THEN 0
    ELSE (units[(k \div width) + 1] \div (2 ^ (width - 1 - (k % width)))) % 2

\* the number the bits k .. k + n - 1 spell
bits_at(units, width, k, n) ==
    IF n = 5
    THEN 16 * bit_at(units, width, k) + 8 * bit_at(units, width, k + 1)
         + 4 * bit_at(units, width, k + 2) + 2 * bit_at(units, width, k + 3)
         + bit_at(units, width, k + 4)
    ELSE 128 * bit_at(units, width, k) + 64 * bit_at(units, width, k + 1)
         + 32 * bit_at(units, width, k + 2) + 16 * bit_at(units, width, k + 3)
         + 8 * bit_at(units, width, k + 4) + 4 * bit_at(units, width, k + 5)
         + 2 * bit_at(units, width, k + 6) + bit_at(units, width, k + 7)

\* base32::encode(BASE32_ALPHA, data): five bits per character, the last
\* character filled with zero bits, no padding
base32_encode(data) ==
    [j \in 1..((8 * Len(data) + 4) \div 5) |->
        RFC4648_ALPHABET[bits_at(data, 8, 5 * (j - 1), 5) + 1]]

to_ascii_lowercase(c) == IF c >= 65 /\ c <= 90 THEN c + 32 ELSE c

\* the value of a base32 character, read in either case; -1 for another byte
base32_value(c) ==
    IF to_ascii_uppercase(c) >= 65 /\ to_ascii_uppercase(c) <= 90
        THEN to_ascii_uppercase(c) - 65
    ELSE IF c >= 50 /\ c <= 55 THEN c - 50 + 26
    ELSE -1

\* a faulty decoder that reads upper case only
base32_decode_upper_case(data) ==
    IF \E i \in 1..Len(data) : base32_value(data[i]) = -1 \/ data[i] > 90 THEN None
    ELSE Some([m \in 1..((5 * Len(data)) \div 8) |->
                 bits_at([i \in 1..Len(data) |-> base32_value(data[i])], 5, 8 * (m - 1), 8)])

\* base32::decode(BASE32_ALPHA, data) on a text without padding: None for
\* a character outside the alphabet, otherwise the whole bytes of the bits
base32_decode(data) ==
    IF \E i \in 1..Len(data) : base32_value(data[i]) = -1 THEN None
    ELSE Some([m \in 1..((5 * Len(data)) \div 8) |->
                 bits_at([i \in 1..Len(data) |-> base32_value(data[i])], 5, 8 * (m - 1), 8)])

\* the public key of the source's doc comment (key.rs 47-49), the public
\* key of the address of the source's test, and a third key
PUBLIC_KEY_1 == <<215,90,152,1,130,177,10,183,213,75,254,211,201,100,7,58,14,225,114,243,218,166,35,37,175,2,26,104,247,7,81,26>>
PUBLIC_KEY_2 == <<127,118,178,247,240,117,113,74,218,66,245,219,23,191,15,94,55,89,193,159,95,158,39,5,76,196,36,135,23,4,203,75>>
PUBLIC_KEY_3 == <<61,64,23,195,232,67,137,90,146,183,10,167,77,27,126,188,156,152,44,207,46,196,150,140,192,205,85,241,42,244,102,12>>

PublicKeys == {PUBLIC_KEY_1, PUBLIC_KEY_2, PUBLIC_KEY_3}

\* a fourth key: a curve point one bit away from a 32-byte string with the
\* same two checksum bytes
PUBLIC_KEY_4 == <<216,38,80,40,113,67,121,217,63,39,210,112,124,23,223,194,37,100,233,186,54,137,224,201,169,151,68,252,251,197,250,127>>

\* the keys whose address bodies are altered
FlipKeys == {PUBLIC_KEY_2, PUBLIC_KEY_4}

\* the hash of the 32-byte strings that the bodies of FlipKeys decode to when
\* one bit of one character is changed: <<n, p, b, q, c, h1, h2>> says that
\* PUBLIC_KEY_n with byte p set to b and byte q set to c has the checksum
\* bytes h1, h2
ALTERED_KEY_CHECKSUMS ==
    {<<2,1,135,1,135,22,46>>, <<2,1,143,1,143,176,169>>, <<2,1,159,1,159,246,86>>, <<2,1,191,1,191,91,129>>,
       <<2,2,54,2,54,116,122>>, <<2,2,246,2,246,166,173>>, <<2,1,125,2,54,8,48>>, <<2,2,116,2,116,116,46>>,
       <<2,2,126,2,126,14,169>>, <<2,2,100,2,100,186,94>>, <<2,3,194,3,194,237,112>>, <<2,3,210,3,210,222,202>>,
       <<2,3,114,3,114,230,255>>, <<2,3,50,3,50,141,178>>, <<2,3,179,4,119,214,107>>, <<2,3,177,3,177,35,180>>,
       <<2,3,176,3,176,159,253>>, <<2,3,182,3,182,117,179>>, <<2,3,186,3,186,161,119>>, <<2,4,243,4,243,109,27>>,
       <<2,4,255,4,255,56,131>>, <<2,4,211,4,211,185,102>>, <<2,5,208,5,208,91,42>>, <<2,5,176,5,176,23,248>>,
       <<2,5,112,5,112,201,188>>, <<2,4,246,5,208,80,149>>, <<2,5,239,5,239,129,72>>, <<2,5,242,5,242,221,136>>,
       <<2,5,244,5,244,129,128>>, <<2,5,248,5,248,70,161>>, <<2,5,224,5,224,123,28>>, <<2,6,109,6,109,100,170>>,
       <<2,6,101,6,101,18,46>>, <<2,6,85,6,85,19,203>>, <<2,6,53,6,53,13,143>>, <<2,7,177,7,177,12,241>>,
       <<2,6,116,7,241,3,184>>, <<2,6,116,6,116,112,255>>, <<2,6,113,6,113,80,118>>, <<2,6,119,7,177,4,231>>,
       <<2,7,111,7,111,76,157>>, <<2,7,97,7,97,184,2>>, <<2,7,81,7,81,217,146>>, <<2,8,58,8,58,207,177>>,
       <<2,8,106,8,106,137,37>>, <<2,8,10,8,10,16,173>>, <<2,7,112,7,112,157,111>>, <<2,8,218,8,218,251,76>>,
       <<2,8,75,9,90,13,219>>, <<2,8,73,8,73,146,121>>, <<2,8,72,8,72,142,5>>, <<2,8,66,8,66,139,21>>,
       <<2,8,79,9,90,57,11>>, <<2,9,214,9,214,113,246>>, <<2,9,210,9,210,2,206>>, <<2,9,202,9,202,206,61>>,
       <<2,9,154,9,154,20,121>>, <<2,9,254,9,254,76,181>>, <<2,10,34,10,34,161,91>>, <<2,10,2,10,2,109,191>>,
       <<2,10,194,10,194,89,44>>, <<2,9,216,9,216,192,134>>, <<2,9,219,10,98,184,142>>, <<2,10,65,10,65,197,74>>,
       <<2,10,64,10,64,13,119>>, <<2,10,70,10,70,74,240>>, <<2,10,74,10,74,73,129>>, <<2,10,82,10,82,145,130>>,
       <<2,11,253,11,253,31,115>>, <<2,11,229,11,229,103,105>>, <<2,11,213,11,213,144,251>>, <<2,11,173,11,173,146,81>>,
       <<2,11,246,12,27,71,161>>, <<2,11,246,12,91,219,50>>, <<2,11,243,11,243,227,242>>, <<2,11,241,11,241,98,196>>,
       <<2,12,221,12,221,8,55>>, <<2,12,215,12,215,138,164>>, <<2,12,211,12,211,128,43>>, <<2,12,203,12,203,220,81>>,
       <<2,13,39,13,39,145,207>>, <<2,12,218,13,247,151,215>>, <<2,13,87,13,87,239,70>>, <<2,13,151,13,151,151,240>>,
       <<2,12,218,12,218,243,232>>, <<2,13,167,13,167,227,207>>, <<2,13,24,14,63,139,113>>, <<2,13,24,13,24,243,30>>,
       <<2,13,25,13,25,41,152>>, <<2,13,27,13,27,228,81>>, <<2,14,195,14,195,231,23>>, <<2,14,199,14,199,184,235>>,
       <<2,14,207,14,207,26,145>>, <<2,14,223,14,223,206,234>>, <<2,14,190,15,239,107,18>>, <<2,14,190,14,190,113,73>>,
       <<2,14,189,14,189,76,39>>, <<2,15,16,15,16,238,60>>, <<2,15,17,15,17,172,246>>, <<2,15,19,15,19,208,214>>,
       <<2,15,23,15,23,219,245>>, <<2,16,102,16,102,92,176>>, <<2,16,110,16,110,52,117>>, <<2,16,62,16,62,223,14>>,
       <<2,16,30,16,30,129,195>>, <<2,16,93,17,247,139,0>>, <<2,16,92,16,92,41,159>>, <<2,16,90,16,90,231,142>>,
       <<2,17,53,17,53,124,237>>, <<2,17,63,17,63,101,223>>, <<2,17,37,17,37,72,4>>, <<2,18,105,18,105,222,156>>,
       <<2,18,57,18,57,55,206>>, <<2,18,25,18,25,135,44>>, <<2,17,54,17,54,190,136>>, <<2,18,233,18,233,239,73>>,
       <<2,18,90,19,65,55,226>>, <<2,18,90,18,90,2,200>>, <<2,18,87,18,87,247,145>>, <<2,18,81,18,81,159,75>>,
       <<2,18,94,19,65,73,170>>, <<2,19,189,19,189,50,146>>, <<2,19,201,19,201,97,221>>, <<2,19,209,19,209,220,58>>,
       <<2,19,225,19,225,73,176>>, <<2,19,129,19,129,18,234>>, <<2,20,127,20,127,231,187>>, <<2,20,223,20,223,237,159>>,
       <<2,20,31,20,31,79,102>>, <<2,19,192,19,192,127,148>>, <<2,20,158,20,158,187,249>>, <<2,20,157,20,157,117,218>>,
       <<2,20,155,20,155,76,111>>, <<2,20,150,20,150,234,87>>, <<2,21,103,21,103,136,82>>, <<2,21,111,21,111,152,239>>,
       <<2,21,63,21,63,142,238>>, <<2,21,31,21,31,91,242>>, <<2,22,222,22,222,200,146>>, <<2,22,30,22,30,180,52>>,
       <<2,21,94,21,94,126,132>>, <<2,21,93,22,94,125,240>>, <<2,22,160,22,160,22,60>>, <<2,22,162,22,162,79,149>>,
       <<2,22,166,22,166,65,64>>, <<2,22,174,22,174,135,45>>, <<2,23,23,23,23,101,154>>, <<2,23,7,23,7,177,39>>,
       <<2,23,103,23,103,203,208>>, <<2,23,167,23,167,225,156>>, <<2,22,159,22,159,183,222>>, <<2,23,38,24,133,199,77>>,
       <<2,23,38,23,38,229,50>>, <<2,23,37,23,37,82,95>>, <<2,23,35,23,35,72,161>>, <<2,24,9,24,9,193,82>>,
       <<2,24,21,24,21,251,195>>, <<2,24,37,24,37,47,13>>, <<2,24,69,24,69,168,106>>, <<2,25,44,25,44,73,249>>,
       <<2,25,12,25,12,95,183>>, <<2,25,204,25,204,152,81>>, <<2,24,4,24,4,203,19>>, <<2,25,75,25,75,118,134>>,
       <<2,25,78,25,78,164,238>>, <<2,25,72,25,72,34,148>>, <<2,25,68,25,68,19,233>>, <<2,26,188,26,188,9,207>>,
       <<2,26,132,26,132,168,186>>, <<2,26,68,26,68,164,69>>, <<2,26,195,27,228,79,75>>, <<2,27,164,27,164,209,192>>,
       <<2,26,197,26,197,202,215>>, <<2,26,198,26,198,64,147>>, <<2,26,192,26,192,165,172>>, <<2,27,34,27,34,189,142>>,
       <<2,27,32,27,32,30,137>>, <<2,27,44,27,44,108,107>>, <<2,27,4,27,4,151,142>>, <<2,27,54,27,54,183,213>>,
       <<2,28,119,28,119,210,31>>, <<2,28,167,28,167,124,241>>, <<2,28,199,28,199,51,73>>, <<2,28,7,28,7,228,22>>,
       <<2,27,37,27,37,183,253>>, <<2,28,134,29,151,83,38>>, <<2,28,134,28,134,225,7>>, <<2,28,133,28,133,238,71>>,
       <<2,28,131,28,131,15,121>>, <<2,29,27,29,27,228,69>>, <<2,29,15,29,15,39,172>>, <<2,29,7,29,7,133,155>>,
       <<2,29,55,29,55,71,51>>, <<2,29,87,29,87,110,61>>, <<2,29,22,30,228,228,232>>, <<2,29,22,29,22,153,81>>,
       <<2,29,21,29,21,0,193>>, <<2,30,3,30,3,53,40>>, <<2,30,6,30,6,132,186>>, <<2,30,0,30,0,56,213>>,
       <<2,30,12,30,12,91,194>>, <<2,30,20,30,20,250,238>>, <<2,31,187,31,187,176,110>>, <<2,31,139,31,139,85,113>>,
       <<2,31,75,31,75,97,116>>, <<2,32,139,32,139,82,63>>, <<2,31,202,32,203,202,117>>, <<2,31,202,31,202,32,103>>,
       <<2,31,201,31,201,78,213>>, <<2,32,77,32,77,213,91>>, <<2,32,71,32,71,213,61>>, <<2,32,67,32,67,120,161>>,
       <<2,32,91,32,91,151,215>>, <<2,32,107,32,107,160,129>>, <<2,32,74,32,74,255,51>>, <<4,1,208,1,208,179,196>>,
       <<4,1,248,1,248,80,250>>, <<4,1,144,1,144,46,7>>, <<4,2,166,2,166,195,32>>, <<4,1,217,1,217,224,14>>,
       <<4,1,218,1,218,18,70>>, <<4,1,220,1,220,46,136>>, <<4,2,40,2,40,249,232>>, <<4,2,42,2,42,219,213>>,
       <<4,2,30,2,30,218,252>>, <<4,2,6,2,6,3,142>>, <<4,2,56,2,56,254,240>>, <<4,3,96,3,96,246,152>>,
       <<4,3,48,3,48,222,222>>, <<4,3,16,3,16,230,220>>, <<4,3,208,3,208,141,233>>, <<4,2,39,2,39,174,140>>,
       <<4,3,81,3,81,34,171>>, <<4,3,82,3,82,183,88>>, <<4,3,84,3,84,159,217>>, <<4,3,88,3,88,10,231>>,
       <<4,4,36,4,36,132,86>>, <<4,4,32,4,32,136,164>>, <<4,4,56,4,56,156,100>>, <<4,4,8,4,8,151,213>>,
       <<4,5,145,5,145,247,20>>, <<4,5,177,5,177,146,126>>, <<4,4,41,4,41,200,70>>, <<4,4,42,4,42,213,79>>,
       <<4,5,114,5,114,86,228>>, <<4,5,111,5,111,57,139>>, <<4,5,117,5,117,75,168>>, <<4,5,121,5,121,102,33>>,
       <<4,5,97,5,97,223,123>>, <<4,5,122,5,122,12,69>>, <<4,6,59,6,59,44,220>>, <<4,6,83,6,83,124,82>>,
       <<4,6,99,6,99,36,67>>, <<4,6,3,6,3,13,126>>, <<4,6,195,6,195,245,160>>, <<4,7,185,7,185,170,16>>,
       <<4,6,66,7,249,242,47>>, <<4,6,66,6,66,148,127>>, <<4,6,65,6,65,181,84>>, <<4,7,123,7,123,150,44>>,
       <<4,7,125,7,125,65,120>>, <<4,7,103,7,103,86,198>>, <<4,8,201,8,201,225,155>>, <<4,8,249,8,249,136,217>>,
       <<4,8,73,8,73,232,177>>, <<4,8,216,9,191,180,1>>, <<4,8,216,8,216,167,126>>, <<4,8,219,8,219,129,158>>,
       <<4,8,209,8,209,137,70>>, <<4,8,221,9,191,101,87>>, <<4,9,67,9,67,200,175>>, <<4,9,71,9,71,76,165>>,
       <<4,9,79,9,79,95,34>>, <<4,9,95,9,95,140,178>>, <<4,9,62,10,231,146,51>>, <<4,9,62,9,62,62,9>>,
       <<4,9,61,9,61,11,136>>, <<4,10,40,10,40,4,6>>, <<4,10,41,10,41,65,63>>, <<4,10,43,10,43,89,191>>,
       <<4,10,55,10,55,109,141>>, <<4,11,218,11,218,136,84>>, <<4,11,242,11,242,44,32>>, <<4,11,138,11,138,234,212>>,
       <<4,12,176,12,176,44,99>>, <<4,11,209,12,240,135,69>>, <<4,11,211,11,211,230,96>>, <<4,11,208,11,208,155,215>>,
       <<4,11,214,11,214,163,67>>, <<4,12,110,12,110,55,106>>, <<4,12,96,12,96,191,45>>, <<4,12,80,12,80,73,133>>,
       <<4,13,140,13,140,84,237>>, <<4,13,156,13,156,0,25>>, <<4,13,188,13,188,245,65>>, <<4,12,113,12,113,33,12>>,
       <<4,13,123,14,151,208,209>>, <<4,13,120,13,120,255,25>>, <<4,13,116,13,116,94,167>>, <<4,14,27,14,27,209,205>>,
       <<4,14,15,14,15,24,244>>, <<4,14,7,14,7,166,7>>, <<4,14,55,14,55,61,34>>, <<4,14,87,14,87,70,13>>,
       <<4,15,255,15,255,56,251>>, <<4,15,159,15,159,39,158>>, <<4,15,95,15,95,113,28>>, <<4,14,22,15,191,246,191>>,
       <<4,15,222,15,222,40,240>>, <<4,15,221,15,221,190,254>>, <<4,15,219,15,219,206,107>>, <<4,15,214,15,214,207,16>>,
       <<4,16,186,16,186,179,4>>, <<4,16,130,16,130,236,161>>, <<4,16,66,16,66,55,151>>, <<4,16,193,17,229,93,74>>,
       <<4,17,165,17,165,91,110>>, <<4,16,195,16,195,48,97>>, <<4,16,192,16,192,85,37>>, <<4,16,198,16,198,114,178>>,
       <<4,17,35,17,35,50,230>>, <<4,17,33,17,33,29,120>>, <<4,17,45,17,45,249,15>>, <<4,17,5,17,5,174,175>>,
       <<4,17,55,17,55,82,228>>, <<4,18,84,18,84,20,249>>, <<4,18,68,18,68,181,5>>, <<4,18,36,18,36,133,180>>,
       <<4,17,36,17,36,126,94>>, <<4,18,244,18,244,74,177>>, <<4,18,101,19,105,85,174>>, <<4,18,99,18,99,119,254>>,
       <<4,18,102,18,102,156,50>>, <<4,18,96,18,96,245,99>>, <<4,18,108,18,108,185,65>>, <<4,19,237,19,237,37,14>>,
       <<4,19,249,19,249,137,146>>, <<4,19,197,19,197,225,1>>, <<4,20,218,20,218,75,66>>, <<4,20,122,20,122,201,49>>,
       <<4,20,58,20,58,23,255>>, <<4,19,232,19,232,127,86>>, <<4,20,187,20,187,120,233>>, <<4,20,190,20,190,79,65>>,
       <<4,20,177,20,177,163,4>>, <<4,21,46,21,46,63,180>>, <<4,21,38,21,38,213,247>>, <<4,21,22,21,22,124,219>>,
       <<4,21,118,21,118,195,174>>, <<4,21,182,21,182,84,194>>, <<4,22,201,22,201,172,49>>, <<4,21,55,21,55,165,157>>,
       <<4,21,52,22,73,148,74>>, <<4,22,135,22,135,222,137>>, <<4,22,141,22,141,83,196>>, <<4,22,129,22,129,139,103>>,
       <<4,22,153,22,153,32,79>>, <<4,22,169,22,169,86,147>>, <<4,23,240,23,240,230,93>>, <<4,23,192,23,192,101,175>>,
       <<4,23,160,23,160,39,21>>, <<4,23,80,23,80,167,249>>, <<4,23,225,24,73,28,79>>, <<4,23,226,23,226,217,214>>,
       <<4,23,228,23,228,127,61>>, <<4,23,232,23,232,141,189>>, <<4,24,197,24,197,206,241>>, <<4,24,193,24,193,8,36>>,
       <<4,24,217,24,217,202,244>>, <<4,24,137,24,137,209,225>>, <<4,24,237,24,237,144,110>>, <<4,25,201,25,201,93,61>>,
       <<4,25,105,25,105,4,236>>, <<4,25,41,25,41,61,18>>, <<4,24,200,24,200,49,64>>, <<4,25,170,25,170,249,212>>,
       <<4,25,167,25,167,218,242>>, <<4,25,173,25,173,48,219>>, <<4,25,161,25,161,158,11>>, <<4,25,185,25,185,18,113>>,
       <<4,26,143,26,143,148,63>>, <<4,26,135,26,135,10,59>>, <<4,26,183,26,183,145,159>>, <<4,26,23,26,23,91,177>>,
       <<4,26,223,26,223,99,142>>, <<4,27,4,27,4,120,72>>, <<4,27,196,27,196,239,1>>, <<4,26,149,27,4,208,131>>,
       <<4,27,66,27,66,65,3>>, <<4,27,64,27,64,20,200>>, <<4,27,76,27,76,134,14>>, <<4,27,84,27,84,201,75>>,
       <<4,27,100,27,100,204,146>>, <<4,27,69,28,12,71,198>>, <<4,27,69,28,28,10,242>>, <<4,27,69,28,60,35,227>>,
       <<4,27,69,28,124,27,23>>, <<4,28,251,28,251,90,113>>, <<4,28,248,28,248,161,52>>, <<4,28,244,28,244,196,247>>,
       <<4,29,255,29,255,181,198>>, <<4,29,243,29,243,221,21>>, <<4,29,235,29,235,113,137>>, <<4,29,215,29,215,167,129>>,
       <<4,30,229,30,229,165,215>>, <<4,30,133,30,133,174,251>>, <<4,30,69,30,69,25,74>>, <<4,29,250,30,165,42,158>>,
       <<4,30,198,30,198,182,179>>, <<4,30,195,30,195,160,204>>, <<4,30,193,30,193,253,206>>, <<4,30,205,30,205,148,41>>,
       <<4,30,213,30,213,213,22>>, <<4,31,242,31,242,197,39>>, <<4,31,234,31,234,190,135>>, <<4,31,218,31,218,138,25>>,
       <<4,31,178,31,178,193,64>>, <<4,32,191,32,191,114,25>>, <<4,31,249,32,255,7,175>>, <<4,31,251,31,251,199,169>>,
       <<4,31,248,31,248,160,34>>, <<4,31,254,31,254,243,128>>, <<4,32,125,32,125,254,186>>, <<4,32,123,32,123,81,189>>,
       <<4,32,119,32,119,232,114>>, <<4,32,109,32,109,6,49>>, <<4,32,126,32,126,252,252>>}

\* the table as pairs <<32-byte string, checksum>>
ALTERED_KEYS ==
    {<<[(IF e[1] = 2 THEN PUBLIC_KEY_2 ELSE PUBLIC_KEY_4) EXCEPT ![e[2]] = e[3], ![e[4]] = e[5]],
       <<e[6], e[7]>>>> : e \in ALTERED_KEY_CHECKSUMS}

\* the first two bytes of SHA3-256(".onion checksum" || pubkey || 0x03):
\* the values of the hash for the four keys and for the altered keys
onion_checksum(pubkey) ==
    IF pubkey = PUBLIC_KEY_1 THEN <<190, 201>>
    ELSE IF pubkey = PUBLIC_KEY_2 THEN <<78, 210>>
    ELSE IF pubkey = PUBLIC_KEY_3 THEN <<38, 99>>
    ELSE IF pubkey = PUBLIC_KEY_4 THEN <<120, 233>>
    ELSE IF \E e \in ALTERED_KEYS : e[1] = pubkey
        THEN (CHOOSE e \in ALTERED_KEYS : e[1] = pubkey)[2]
    ELSE <<0, 0>>

\* impl From<&TorPublicKeyV3> for OnionAddressV3
OnionAddressV3_from(tpk) == tpk \o onion_checksum(tpk)

\* TorPublicKeyV3::get_onion_address
get_onion_address(tpk) == OnionAddressV3_from(tpk)

get_raw_bytes(self) == self \o <<3>>

get_address_without_dot_onion(self) ==
    [i \in 1..Len(base32_encode(get_raw_bytes(self))) |->
        to_ascii_lowercase(base32_encode(get_raw_bytes(self))[i])]

\* impl Display for OnionAddressV3: "{}.onion"
OnionAddressV3_to_string(self) == get_address_without_dot_onion(self) \o <<46,111,110,105,111,110>>

get_public_key(self) == SubSeq(self, 1, 32)

\* a faulty from_str that compares the checksum before it reads the version
from_str_decoded_checksum_first(res) ==
    IF res = None THEN Error("Base32Error")
    ELSE IF Len(res[1]) # 32 + 2 + 1 THEN Error("InvalidLength")
    ELSE IF onion_checksum(SubSeq(res[1], 1, 32)) # SubSeq(res[1], 33, 34)
        THEN Error("InvalidChecksum")
    ELSE IF res[1][35] # 3 THEN Error("InvalidVersion")
    ELSE Ok(SubSeq(res[1], 1, 32) \o onion_checksum(SubSeq(res[1], 1, 32)))

\* from_str after the decoding: res is base32::decode(..)
from_str_decoded(res) ==
    IF res = None THEN Error("Base32Error")
    ELSE IF Len(res[1]) # 32 + 2 + 1 THEN Error("InvalidLength")
    ELSE IF res[1][35] # 3 THEN Error("InvalidVersion")
    ELSE IF onion_checksum(SubSeq(res[1], 1, 32)) # SubSeq(res[1], 33, 34)
        THEN Error("InvalidChecksum")
    ELSE Ok(SubSeq(res[1], 1, 32) \o onion_checksum(SubSeq(res[1], 1, 32)))

\* impl FromStr for OnionAddressV3
OnionAddressV3_from_str(raw_onion_address) ==
    IF Len(raw_onion_address) # 56 THEN Error("InvalidLength")
    ELSE from_str_decoded(base32_decode(raw_onion_address))

MaxOnionCalls == 3

InitOnion ==
    /\ inbox = <<>>
    /\ closed = FALSE
    /\ sent = 0
    /\ wire = <<>>
    /\ uconn = None
    /\ aconn = None
    /\ \E tpk \in PublicKeys : call = [Idle EXCEPT !.args = tpk]
    /\ ncalls = 0
    /\ trace = <<>>

\* the values the calls `ops` have returned so far
ReturnedBy(ops) ==
    {trace[i].res.val : i \in {j \in 1..Len(trace) : trace[j].op \in ops /\ trace[j].res.ok}}

Addresses == ReturnedBy({"OnionAddressV3::from", "from_str", "get_onion_address"})

\* the call op(arg) returns res
OnionCall(op, arg, res) ==
    /\ ncalls < MaxOnionCalls
    /\ ncalls' = ncalls + 1
    /\ trace' = Append(trace, [RetNow(op, res) EXCEPT !.bytes = arg])
    /\ UNCHANGED <<inbox, closed, sent, wire, uconn, aconn, call>>

\* OnionAddressV3::from(&tpk) and tpk.get_onion_address(), of the key drawn
\* or of a key that get_public_key returned
AddressOfKey ==
    \E tpk \in {call.args} \cup ReturnedBy({"get_public_key"}) :
        \/ OnionCall("OnionAddressV3::from", tpk, Ok(OnionAddressV3_from(tpk)))
        \/ OnionCall("get_onion_address", tpk, Ok(get_onion_address(tpk)))

\* to_string(), get_address_without_dot_onion() and get_public_key() of an
\* address
OfAddress ==
    \E self \in Addresses :
        \/ OnionCall("to_string", self, Ok(OnionAddressV3_to_string(self)))
        \/ OnionCall("get_address_without_dot_onion", self,
                     Ok(get_address_without_dot_onion(self)))
        \/ OnionCall("get_public_key", self, Ok(get_public_key(self)))

\* OnionAddressV3::from_str of a text that was returned
FromStr ==
    \E raw_onion_address \in ReturnedBy({"to_string", "get_address_without_dot_onion"}) :
        OnionCall("from_str", raw_onion_address, OnionAddressV3_from_str(raw_onion_address))

NextOnion ==
    \/ AddressOfKey
    \/ OfAddress
    \/ FromStr

SpecOnion == InitOnion /\ [][NextOnion]_vars

\* the byte c with bit `bit` (0 the least significant) changed
flip_bit(c, bit) == IF (c \div (2 ^ bit)) % 2 = 1 THEN c - 2 ^ bit ELSE c + 2 ^ bit

\* the body of the address of tpk, and the body with one bit of character
\* `at` changed
BodyOf(tpk) == get_address_without_dot_onion(OnionAddressV3_from(tpk))
AlteredBody(tpk, at, bit) == [BodyOf(tpk) EXCEPT ![at] = flip_bit(BodyOf(tpk)[at], bit)]

\* a key, a character of the body of its address and a bit of the character,
\* with the body and the altered body.
\* The text given to from_str is a &str: bit 7 of a character is never set.
\* The character '=' is left out: it is the padding character of base32, and
\* what the decoder does with it is not written in this repository.
InitOnionFlip ==
    /\ inbox = <<>>
    /\ closed = FALSE
    /\ sent = 0
    /\ wire = <<>>
    /\ uconn = None
    /\ aconn = None
    /\ \E tpk \in FlipKeys, at \in 1..56, bit \in 0..6 :
        /\ AlteredBody(tpk, at, bit)[at] # 61
        /\ call = [Idle EXCEPT !.args = [tpk |-> tpk, at |-> at, bit |-> bit,
                                          body |-> BodyOf(tpk),
                                          altered |-> AlteredBody(tpk, at, bit)]]
    /\ ncalls = 0
    /\ trace = <<>>

\* OnionAddressV3::from_str of the body of the address of the key
FromStrOfBody ==
    \E raw_onion_address \in {call.args.body} :
        OnionCall("from_str", raw_onion_address, OnionAddressV3_from_str(raw_onion_address))

\* OnionAddressV3::from_str of the altered body
FromStrOfAlteredBody ==
    \E raw_onion_address \in {call.args.altered} :
        OnionCall("from_str", raw_onion_address, OnionAddressV3_from_str(raw_onion_address))

NextOnionFlip ==
    \/ FromStrOfBody
    \/ FromStrOfAlteredBody

SpecOnionFlip == InitOnionFlip /\ [][NextOnionFlip]_vars

(***************************************************************************)
(* TorPublicKeyV3 (onion/v3/key.rs, onion/v3/serde.rs).                    *)
(***************************************************************************)
\* the alphabet of base64: A-Z a-z 0-9 + /
BASE64_ALPHABET == [j \in 1..64 |-> IF j <= 26 THEN 64 + j ELSE IF j <= 52 THEN 70 + j ELSE IF j <= 62 THEN j - 5 ELSE IF j = 63 THEN 43 ELSE 47]

\* the value of a base64 character; -1 for another byte
base64_value(c) ==
    IF c >= 65 /\ c <= 90 THEN c - 65
    ELSE IF c >= 97 /\ c <= 122 THEN c - 71
    ELSE IF c >= 48 /\ c <= 57 THEN c + 4
    ELSE IF c = 43 THEN 62
    ELSE IF c = 47 THEN 63
    ELSE -1

\* the number the six bits k .. k + 5 of the bytes spell
six_bits_at(data, k) ==
    32 * bit_at(data, 8, k) + 16 * bit_at(data, 8, k + 1) + 8 * bit_at(data, 8, k + 2)
    + 4 * bit_at(data, 8, k + 3) + 2 * bit_at(data, 8, k + 4) + bit_at(data, 8, k + 5)

\* base64::encode(data): six bits per character, the last character filled
\* with zero bits, '=' up to a multiple of four characters
base64_encode(data) ==
    [j \in 1..(4 * ((Len(data) + 2) \div 3)) |->
        IF j <= (8 * Len(data) + 5) \div 6
        THEN BASE64_ALPHABET[six_bits_at(data, 6 * (j - 1)) + 1]
        ELSE 61]

\* the text without the '=' at its end
without_padding(text) ==
    IF Len(text) >= 2 /\ text[Len(text)] = 61 /\ text[Len(text) - 1] = 61
        THEN SubSeq(text, 1, Len(text) - 2)
    ELSE IF Len(text) >= 1 /\ text[Len(text)] = 61 THEN SubSeq(text, 1, Len(text) - 1)
    ELSE text

\* base64::decode(text) of a text of whole groups of four characters: None
\* for a character outside the alphabet, otherwise the whole bytes of the bits
base64_decode(text) ==
    IF \E i \in 1..Len(without_padding(text)) : base64_value(without_padding(text)[i]) = -1
        THEN None
    ELSE Some([m \in 1..((6 * Len(without_padding(text))) \div 8) |->
                 bits_at([i \in 1..Len(without_padding(text)) |->
                             base64_value(without_padding(text)[i])], 6, 8 * (m - 1), 8)])

\* PUBLIC_KEY_4 with one bit of byte 20 changed: 32 bytes that are no curve
\* point
NOT_A_POINT == [PUBLIC_KEY_4 EXCEPT ![20] = 187]

\* the expanded secret key of the seed of the first test of RFC 8032; its
\* public key is PUBLIC_KEY_1
SECRET_KEY_1 == <<48,124,131,134,79,40,51,203,66,122,46,241,192,10,1,60,253,255,39,104,217,128,192,163,165,32,240,6,144,77,233,79,155,79,10,254,40,11,116,106,119,134,132,231,84,66,80,32,87,183,71,58,3,240,143,150,245,163,142,146,135,224,31,143>>

\* ed25519_dalek::PublicKey::from_bytes(bytes).is_ok(): the 32 bytes
\* decompress to a point of the curve.  The answer for the 32-byte strings
\* of the model, computed outside.
is_curve_point(bytes) == bytes \in {PUBLIC_KEY_1, PUBLIC_KEY_2, PUBLIC_KEY_3, PUBLIC_KEY_4}

\* a faulty check that takes every 32 bytes for a point
is_curve_point_always(bytes) == Len(bytes) = 32

\* TorPublicKeyV3::from_bytes
TorPublicKeyV3_from_bytes(bytes) ==
    IF is_curve_point(bytes) THEN Ok(bytes) ELSE Error("PointDecompressionError")

\* TorSecretKeyV3::public: PublicKey::from(&esk).to_bytes(), the value for
\* the secret key of the model
public(self) == (CHOOSE e \in {<<SECRET_KEY_1, PUBLIC_KEY_1>>} : e[1] = self)[2]

\* impl Serialize for TorPublicKeyV3
TorPublicKeyV3_serialize(self) == base64_encode(self)

\* impl Deserialize for TorPublicKeyV3, after the decoding of the text
deserialize_decoded(raw) ==
    IF raw = None THEN Error("custom")
    ELSE IF Len(raw[1]) # 32 THEN Error("Invalid secret key length")
    ELSE Ok(raw[1])

\* impl Deserialize for TorPublicKeyV3
TorPublicKeyV3_deserialize(text) == deserialize_decoded(base64_decode(text))

\* the 32-byte strings a caller hands in
KeyBytes == {PUBLIC_KEY_1, PUBLIC_KEY_4, NOT_A_POINT}

\* a text that is no base64, and the base64 of 31 bytes
NOT_BASE64 == <<50,67,90,81,42,72,70,68>>
SHORT_KEY_TEXT == base64_encode(SubSeq(PUBLIC_KEY_4, 1, 31))

InitKey ==
    /\ inbox = <<>>
    /\ closed = FALSE
    /\ sent = 0
    /\ wire = <<>>
    /\ uconn = None
    /\ aconn = None
    /\ \E bytes \in KeyBytes :
        call = [Idle EXCEPT !.args = [bytes |-> bytes,
                                      text |-> base64_encode(bytes),
                                      body |-> get_address_without_dot_onion(bytes \o onion_checksum(bytes))]]
    /\ ncalls = 0
    /\ trace = <<>>

\* the TorPublicKeyV3 values obtained so far
PublicKeysObtained == ReturnedBy({"from_bytes", "public", "get_public_key", "deserialize"})

\* TorPublicKeyV3::from_bytes(&bytes)
FromBytes ==
    \E bytes \in {call.args.bytes} :
        OnionCall("from_bytes", bytes, TorPublicKeyV3_from_bytes(bytes))

\* TorSecretKeyV3::public()
Public ==
    \E self \in {SECRET_KEY_1} :
        OnionCall("public", self, Ok(public(self)))

\* serde: a TorPublicKeyV3 obtained is serialized
SerializeKey ==
    \E self \in PublicKeysObtained :
        OnionCall("serialize", self, Ok(TorPublicKeyV3_serialize(self)))

\* serde: a TorPublicKeyV3 is deserialized from a text that was serialized,
\* or from a text a caller hands in
DeserializeKey ==
    \E text \in ReturnedBy({"serialize"}) \cup {call.args.text, NOT_BASE64, SHORT_KEY_TEXT} :
        OnionCall("deserialize", text, TorPublicKeyV3_deserialize(text))

\* OnionAddressV3::from_str of the text a caller hands in
FromStrOfText ==
    \E raw_onion_address \in {call.args.body} :
        OnionCall("from_str", raw_onion_address, OnionAddressV3_from_str(raw_onion_address))

\* OnionAddressV3::get_public_key of an address that from_str returned
GetPublicKey ==
    \E self \in ReturnedBy({"from_str"}) :
        OnionCall("get_public_key", self, Ok(get_public_key(self)))

NextKey ==
    \/ FromBytes
    \/ Public
    \/ SerializeKey
    \/ DeserializeKey
    \/ FromStrOfText
    \/ GetPublicKey

SpecKey == InitKey /\ [][NextKey]_vars

(***************************************************************************)
(* run_tor (utils/run.rs).  inbox is the bytes the child wrote to its      *)
(* stdout and run_tor has not read, closed tells that the child closed its *)
(* stdout, call.args is the Child.                                         *)
(***************************************************************************)
\* "Opened Control listener"
OPENED_CONTROL_LISTENER == <<79,112,101,110,101,100,32,67,111,110,116,114,111,108,32,108,105,115,116,101,110,101,114>>

\* what the child writes at once: the line that run_tor waits for, another
\* line, the start of a line, a line that is not UTF-8, and the text that
\* run_tor waits for without the end of the line
STDOUT_OPENED == <<91,110,111,116,105,99,101,93,32,79,112,101,110,101,100,32,67,111,110,116,114,111,108,32,108,105,115,116,101,110,101,114,32,111,110,32,49,50,55,46,48,46,48,46,49,58,57,48,53,49,10>>
STDOUT_BOOTSTRAPPED == <<91,110,111,116,105,99,101,93,32,66,111,111,116,115,116,114,97,112,112,101,100,32,48,37,10>>
STDOUT_PARTIAL == <<91,119,97,114,110,93,32>>
STDOUT_NOT_UTF8 == <<255, 10>>
STDOUT_OPENED_NO_NEWLINE == <<79,112,101,110,101,100,32,67,111,110,116,114,111,108,32,108,105,115,116,101,110,101,114>>
StdoutPool == {STDOUT_OPENED, STDOUT_BOOTSTRAPPED, STDOUT_PARTIAL, STDOUT_NOT_UTF8,
               STDOUT_OPENED_NO_NEWLINE}

\* str::contains
contains(l, pat) == \E k \in 0..(Len(l) - Len(pat)) : SubSeq(l, k + 1, k + Len(pat)) = pat

\* the number of bytes BufRead::read_line takes from the stream: up to and
\* with the first '\n', or all bytes at the end of the stream; -1 while it
\* has to wait
read_line_length(stream, eof) ==
    IF \E k \in 1..Len(stream) : stream[k] = 10
        THEN CHOOSE k \in 1..Len(stream) : stream[k] = 10 /\ \A j \in 1..(k - 1) : stream[j] # 10
    ELSE IF eof THEN Len(stream)
    ELSE -1

\* read_line(&mut l) of the bytes l: an error for bytes that are not UTF-8,
\* otherwise Ok of the number of bytes read, 0 at the end of the stream
read_line(l) ==
    IF \E k \in 1..Len(l) : l[k] > 127 THEN Error("io::Error") ELSE Ok(Len(l))

InitRunTor ==
    /\ inbox = <<>>
    /\ closed = FALSE
    /\ sent = 0
    /\ wire = <<>>
    /\ uconn = None
    /\ aconn = None
    /\ call = [Idle EXCEPT !.op = "run_tor", !.pc = "spawn"]
    /\ ncalls = 0
    /\ trace = <<>>

\* Command::new(path)...spawn()?: the child runs, or run_tor returns the error
Spawn ==
    /\ call.pc = "spawn"
    /\ \E spawned \in BOOLEAN :
        IF spawned
        THEN /\ call' = [call EXCEPT !.pc = "read_line", !.args = [killed |-> FALSE]]
             /\ trace' = Append(trace, CallEntry("run_tor"))
        ELSE /\ call' = [call EXCEPT !.pc = "returned"]
             /\ trace' = trace \o <<CallEntry("run_tor"), RetNow("run_tor", Error("io::Error"))>>
    /\ ncalls' = ncalls + 1
    /\ UNCHANGED <<inbox, closed, sent, wire, uconn, aconn>>

\* the child writes to its stdout
ChildWrites ==
    /\ call.args # <<>>
    /\ ~call.args.killed
    /\ ServerSend(StdoutPool)

\* the child exits, or closes its stdout
ChildCloses ==
    /\ call.args # <<>>
    /\ ServerClose

\* one turn of the loop of run_tor: read_line, then the test of the line.
\* An error kills the child and is returned; a line with the text ends the
\* loop and the child is returned; every other line, the empty line of the
\* end of the stream too, starts the next turn.
RunTorLoop ==
    /\ call.pc = "read_line"
    /\ read_line_length(inbox, closed) >= 0
    /\ \E l \in {SubSeq(inbox, 1, read_line_length(inbox, closed))} :
        /\ inbox' = SubSeq(inbox, Len(l) + 1, Len(inbox))
        /\ IF ~read_line(l).ok
           THEN /\ call' = [call EXCEPT !.pc = "returned", !.args = [killed |-> TRUE]]
                /\ trace' = trace \o <<[ReadEntry("read_line", RecvPending) EXCEPT !.bytes = l, !.res = read_line(l)],
                                       RetEntry(read_line(l))>>
           ELSE IF contains(l, OPENED_CONTROL_LISTENER)
           THEN /\ call' = [call EXCEPT !.pc = "returned"]
                /\ trace' = trace \o <<[ReadEntry("read_line", RecvPending) EXCEPT !.bytes = l, !.res = read_line(l)],
                                       RetEntry(Ok(call.args))>>
           ELSE /\ call' = call
                /\ trace' = IF l = <<>> THEN trace
                            ELSE Append(trace, [ReadEntry("read_line", RecvPending) EXCEPT !.bytes = l, !.res = read_line(l)])
    /\ UNCHANGED <<closed, sent, wire, uconn, aconn, ncalls>>

NextRunTor ==
    \/ Spawn
    \/ ChildWrites
    \/ ChildCloses
    \/ RunTorLoop

\* run_tor runs: its loop is not held up for ever while it can take a turn
\* that changes the state
SpecRunTor == InitRunTor /\ [][NextRunTor]_vars /\ WF_vars(Spawn) /\ WF_vars(RunTorLoop)

(***************************************************************************)
(* PROTOCOLINFO replies (unauthenticated_conn.rs 76-186): the daemon       *)
(* answers the request of load_protocol_info with one reply.               *)
(***************************************************************************)
\* the name of an authentication method in the AUTH METHODS record
MethodName(method) ==
    IF method = "Null" THEN <<78,85,76,76>>
    ELSE IF method = "HashedPassword" THEN <<72,65,83,72,69,68,80,65,83,83,87,79,82,68>>
    ELSE IF method = "Cookie" THEN <<67,79,79,75,73,69>>
    ELSE <<83,65,70,69,67,79,79,75,73,69>>

\* the records of a reply, as the daemon writes them
AuthMethodsRecord(methods, cookie_file) ==
    <<65,85,84,72,32,77,69,84,72,79,68,83,61>> \o join([i \in 1..Len(methods) |-> MethodName(methods[i])], <<44>>)
        \o (IF cookie_file = None THEN <<>> ELSE <<32,67,79,79,75,73,69,70,73,76,69,61>> \o quote_string(cookie_file[1]))
VersionRecord(tor_version) == <<86,69,82,83,73,79,78,32,84,111,114,61>> \o quote_string(tor_version)

\* the lines of a reply with the records given, and its bytes with the
\* status given
ProtocolInfoLines(records) == <<<<80,82,79,84,79,67,79,76,73,78,70,79,32,49>>>> \o records \o <<<<79,75>>>>
ReplyBytes(status, lines) ==
    Concat([i \in 1..Len(lines) |->
               status \o (IF i = Len(lines) THEN <<32>> ELSE <<45>>) \o lines[i] \o CRLF])

\* the lists of methods, the cookie files and the versions of the replies:
\* the values of the source's test among them
MethodLists == {<<"Null">>, <<"Cookie", "SafeCookie">>, <<"Cookie", "SafeCookie", "HashedPassword">>,
                <<"HashedPassword">>}
CookieFileChoices ==
    {None, Some(<<47,104,111,109,101,47,117,115,101,114,47,46,116,111,114,47,99,111,110,116,114,111,108,95,97,117,116,104,95,99,111,111,107,105,101>>), Some(<<47,97,32,98>>), Some(<<67,58,92,116,34,120>>)}
TorVersions == {<<48,46,52,46,50,46,53>>, <<48,46,52,46,56,46,57,32,40,103,105,116,45,49,41>>}

\* the replies the claim is about: the AUTH METHODS record and the VERSION
\* Tor record in either order, with the TorPreAuthInfo they describe
WellFormedInfoReplies ==
    {[lines |-> ProtocolInfoLines(
                    IF p.methods_first
                    THEN <<AuthMethodsRecord(p.methods, p.cookie_file), VersionRecord(p.tor_version)>>
                    ELSE <<VersionRecord(p.tor_version), AuthMethodsRecord(p.methods, p.cookie_file)>>),
      info |-> TorPreAuthInfo({p.methods[i] : i \in 1..Len(p.methods)}, p.cookie_file, p.tor_version)] :
        p \in [methods : MethodLists, cookie_file : CookieFileChoices,
               tor_version : TorVersions, methods_first : BOOLEAN]}

\* replies that are not well formed, by what is wrong with them
RejectedReplies ==
    {[kind |-> "status", code |-> 515, status |-> <<53,49,53>>,
      lines |-> ProtocolInfoLines(<<AuthMethodsRecord(<<"Null">>, None), VersionRecord(<<48,46,52,46,50,46,53>>)>>)],
     [kind |-> "status", code |-> 515, status |-> <<53,49,53>>, lines |-> <<<<66,97,100,32,97,117,116,104,101,110,116,105,99,97,116,105,111,110>>>>],
     [kind |-> "fewer than three lines", code |-> 250, status |-> <<50,53,48>>, lines |-> ProtocolInfoLines(<<>>)],
     [kind |-> "first line", code |-> 250, status |-> <<50,53,48>>,
      lines |-> <<<<80,82,79,84,79,67,79,76,73,78,70,79,32,50>>, AuthMethodsRecord(<<"Null">>, None), VersionRecord(<<48,46,52,46,50,46,53>>), <<79,75>>>>],
     [kind |-> "last line", code |-> 250, status |-> <<50,53,48>>,
      lines |-> <<<<80,82,79,84,79,67,79,76,73,78,70,79,32,49>>, AuthMethodsRecord(<<"Null">>, None), VersionRecord(<<48,46,52,46,50,46,53>>), <<68,79,78,69>>>>],
     [kind |-> "repeated key", code |-> 250, status |-> <<50,53,48>>,
      lines |-> ProtocolInfoLines(<<AuthMethodsRecord(<<"Null">>, None), VersionRecord(<<48,46,52,46,50,46,53>>),
                                    VersionRecord(<<48,46,52,46,50,46,53>>)>>)],
     [kind |-> "repeated method", code |-> 250, status |-> <<50,53,48>>,
      lines |-> ProtocolInfoLines(<<AuthMethodsRecord(<<"Cookie", "Cookie">>, Some(<<47,99>>)),
                                    VersionRecord(<<48,46,52,46,50,46,53>>)>>)],
     [kind |-> "unknown method", code |-> 250, status |-> <<50,53,48>>,
      lines |-> ProtocolInfoLines(<<<<65,85,84,72,32,77,69,84,72,79,68,83,61,78,85,76,76,44,80,65,83,83,87,79,82,68>>, VersionRecord(<<48,46,52,46,50,46,53>>)>>)],
     [kind |-> "no AUTH METHODS", code |-> 250, status |-> <<50,53,48>>,
      lines |-> ProtocolInfoLines(<<VersionRecord(<<48,46,52,46,50,46,53>>)>>)],
     [kind |-> "no VERSION Tor", code |-> 250, status |-> <<50,53,48>>,
      lines |-> ProtocolInfoLines(<<AuthMethodsRecord(<<"Null">>, None)>>)]}

ProtocolInfoPool ==
    {ReplyBytes(<<50,53,48>>, r.lines) : r \in WellFormedInfoReplies}
        \cup {ReplyBytes(r.status, r.lines) : r \in RejectedReplies}

\* the daemon answers the request
DaemonReplies ==
    /\ call.pc = "read_protocol_info"
    /\ inbox = <<>>
    /\ ServerSend(ProtocolInfoPool)

\* get_protocol_info
get_protocol_info(self) == self.protocol_info

NextProtocolInfo ==
    \/ DaemonReplies
    \/ LoadProtocolInfo
    \/ ReadProtocolInfo
    \/ TakeProtocolInfo

SpecProtocolInfo == InitUnauth /\ [][NextProtocolInfo]_vars

(***************************************************************************)
(* The SAFECOOKIE procedure with its daemon (unauthenticated_conn.rs       *)
(* 194-220, 277-322).                                                      *)
(***************************************************************************)
\* the line of an AUTHCHALLENGE reply with the literal parts and the two
\* values given
ChallengeLine(word, hash_key, server_hash_text, nonce_key, server_nonce_text) ==
    word \o <<32>> \o hash_key \o server_hash_text \o <<32>> \o nonce_key \o server_nonce_text

\* "250 AUTHCHALLENGE SERVERHASH=<hex> SERVERNONCE=<hex>\r\n" with the hex
\* digits in lower case
REPLY_AUTHCHALLENGE_LOWER_CASE ==
    <<50,53,48,32>> \o ChallengeLine(<<65,85,84,72,67,72,65,76,76,69,78,71,69>>, <<83,69,82,86,69,82,72,65,83,72,61>>,
                  [i \in 1..64 |-> to_ascii_lowercase(hex_encode_upper(ServerHash)[i])],
                  <<83,69,82,86,69,82,78,79,78,67,69,61>>,
                  [i \in 1..64 |-> to_ascii_lowercase(hex_encode_upper(ServerNonce)[i])]) \o CRLF
\* a line of the right length with other words in the literal parts
REPLY_CHALLENGE_OTHER_WORDS ==
    <<50,53,48,32>> \o ChallengeLine(<<65,85,84,72,67,72,65,76,76,65,78,71,69>>, <<67,76,73,69,78,84,72,65,83,72,61>>, hex_encode_upper(ServerHash),
                  <<67,76,73,69,78,84,78,79,78,67,69,61>>, hex_encode_upper(ServerNonce)) \o CRLF
\* a line that is one digit short
REPLY_CHALLENGE_SHORT ==
    <<50,53,48,32>> \o ChallengeLine(<<65,85,84,72,67,72,65,76,76,69,78,71,69>>, <<83,69,82,86,69,82,72,65,83,72,61>>, hex_encode_upper(ServerHash),
                  <<83,69,82,86,69,82,78,79,78,67,69,61>>, SubSeq(hex_encode_upper(ServerNonce), 1, 63)) \o CRLF
\* a line with a letter that is no hex digit in the hash
REPLY_CHALLENGE_NOT_HEX ==
    <<50,53,48,32>> \o ChallengeLine(<<65,85,84,72,67,72,65,76,76,69,78,71,69>>, <<83,69,82,86,69,82,72,65,83,72,61>>,
                  [hex_encode_upper(ServerHash) EXCEPT ![64] = 71],
                  <<83,69,82,86,69,82,78,79,78,67,69,61>>, hex_encode_upper(ServerNonce)) \o CRLF
\* the line of the challenge followed by a second line
REPLY_CHALLENGE_TWO_LINES ==
    <<50,53,48,45>> \o ChallengeLine(<<65,85,84,72,67,72,65,76,76,69,78,71,69>>, <<83,69,82,86,69,82,72,65,83,72,61>>, hex_encode_upper(ServerHash),
                  <<83,69,82,86,69,82,78,79,78,67,69,61>>, hex_encode_upper(ServerNonce)) \o CRLF \o REPLY_OK

SafeCookiePool ==
    {REPLY_AUTHCHALLENGE, REPLY_AUTHCHALLENGE_LOWER_CASE, REPLY_CHALLENGE_OTHER_WORDS,
     REPLY_CHALLENGE_SHORT, REPLY_CHALLENGE_NOT_HEX, REPLY_CHALLENGE_TWO_LINES,
     REPLY_OK, REPLY_BAD_AUTH}

NextSafeCookie ==
    \/ ServerSend(SafeCookiePool)
    \/ ServerClose
    \/ Authenticate(TorAuthData("SafeCookie", Cookie32))
    \/ AuthenticateChallenge
    \/ AuthenticateFinish

SpecSafeCookie == InitUnauth /\ [][NextSafeCookie]_vars

(***************************************************************************)
(* Properties.  They are stated on trace, the record of what the           *)
(* connection did.                                                         *)
(***************************************************************************)
\* entry i is a reply that receive_data returned to `via`
IsReply(i, via) ==
    /\ trace[i].ev = "read"
    /\ trace[i].via = via
    /\ trace[i].rcv.st = "ok"

\* after entry i the loop of recv_response reads again: the call is about to
\* read, or its next entry is a read of recv_response
ReadsAgain(i) ==
    IF i = Len(trace) THEN call.pc = "recv_response"
    ELSE /\ trace[i + 1].ev = "read"
         /\ trace[i + 1].via = "recv_response"
         /\ trace[i + 1].n = trace[i].n

\* entry i is the last entry of its call but for the return that follows it
ReturnsNext(i) ==
    /\ i < Len(trace)
    /\ trace[i + 1].ev = "ret"
    /\ trace[i + 1].n = trace[i].n
    /\ \A j \in (i + 2)..Len(trace) : trace[j].n # trace[i].n

\* C1: in recv_response every reply with code 650 goes to the event handler,
\* when one is set, with its lines unchanged, and the loop then reads again;
\* the first reply with another code is returned as the reply of the command
\* (its status decides the result) and the command reads nothing after it.
C1_RecvResponseLoop ==
    \A i \in 1..Len(trace) :
        IsReply(i, "recv_response") =>
            IF trace[i].rcv.code = 650
            THEN IF trace[i].h
                 THEN IF i = Len(trace)
                      THEN /\ call.pc = "handle_async_event"
                           /\ call.event = trace[i].rcv.lines
                      ELSE /\ trace[i + 1].ev = "event"
                           /\ trace[i + 1].n = trace[i].n
                           /\ trace[i + 1].rcv.lines = trace[i].rcv.lines
                           /\ trace[i + 1].res.ok => ReadsAgain(i + 1)
                 ELSE ReadsAgain(i)
            ELSE /\ ReturnsNext(i)
                 /\ trace[i + 1].res =
                        IF trace[i].rcv.code = 250 THEN Ok(<<>>)
                        ELSE ErrInvalidResponseCode(trace[i].rcv.code)

\* an event was handed to the handler, and the reply read after it was
\* returned as the reply of the command
C1_Witness ==
    \E i \in 1..(Len(trace) - 3) :
        /\ IsReply(i, "recv_response") /\ trace[i].rcv.code = 650 /\ trace[i].h
        /\ trace[i + 1].ev = "event" /\ trace[i + 1].res.ok
        /\ IsReply(i + 2, "recv_response") /\ trace[i + 2].rcv.code = 250
        /\ trace[i + 3].ev = "ret" /\ trace[i + 3].res.ok

\* C2: set_conf and set_conf_multiple treat events like every other command:
\* a reply with code 650 that arrives after the SETCONF request was written
\* and is read before the reply to it goes to the event handler (when one is
\* set), and does not decide the result of the command.
C2_SetConfDispatchesEvents ==
    \A i \in 2..Len(trace) :
        ( /\ trace[i].ev = "read"
          /\ trace[i].op = "set_conf_multiple"
          /\ trace[i].rcv.st = "ok"
          /\ trace[i].rcv.code = 650
          /\ trace[i - 1].ev = "write"
          /\ trace[i - 1].rcv.used = 0 ) =>
            /\ i < Len(trace) => trace[i + 1].ev # "ret"
            /\ (trace[i].h /\ i < Len(trace)) =>
                    /\ trace[i + 1].ev = "event"
                    /\ trace[i + 1].rcv.lines = trace[i].rcv.lines

\* the events handed to the handler during call n, and the events read
\* during call n while a handler was set, both in order
EventsOf(n) == SelectSeq(trace, LAMBDA e : e.ev = "event" /\ e.n = n)
EventReadsOf(n) ==
    SelectSeq(trace, LAMBDA e : /\ e.ev = "read" /\ e.n = n /\ e.h
                                /\ e.rcv.st = "ok" /\ e.rcv.code = 650)

\* C3: every event read while command n is in flight is delivered to the
\* handler after command n-1 returned and before command n returns, and the
\* events are delivered in the order in which they arrived.
C3_EventsDeliveredInOrder ==
    /\ \A i \in 1..Len(trace) :
        trace[i].ev = "event" =>
            /\ \E j \in 1..(i - 1) : trace[j].ev = "call" /\ trace[j].n = trace[i].n
            /\ \A j \in 1..(i - 1) : trace[j].ev = "ret" => trace[j].n < trace[i].n
            /\ \A m \in 1..(trace[i].n - 1) :
                    \E j \in 1..(i - 1) : trace[j].ev = "ret" /\ trace[j].n = m
    /\ \A i \in 1..Len(trace) :
        trace[i].ev = "ret" =>
            /\ Len(EventsOf(trace[i].n)) = Len(EventReadsOf(trace[i].n))
            /\ \A k \in 1..Len(EventsOf(trace[i].n)) :
                    EventsOf(trace[i].n)[k].rcv.lines
                        = EventReadsOf(trace[i].n)[k].rcv.lines

\* C4: when the handler returns an error for an event, the command in flight
\* returns that same error and reads no further reply.
C4_HandlerErrorAbortsCommand ==
    \A i \in 1..Len(trace) :
        (trace[i].ev = "event" /\ ~trace[i].res.ok) =>
            /\ ReturnsNext(i)
            /\ trace[i + 1].res = trace[i].res

\* the handler failed, the command returned its error, and the reply of the
\* command is still in the stream
C4_Witness ==
    /\ Len(trace) >= 2
    /\ trace[Len(trace) - 1].ev = "event"
    /\ trace[Len(trace) - 1].res = Error("TooManyBytesRead")
    /\ trace[Len(trace)].ev = "ret"
    /\ trace[Len(trace)].res = Error("TooManyBytesRead")
    /\ inbox = REPLY_OK

\* an authenticate call returned success
AuthenticateSucceeded ==
    \E i \in 1..Len(trace) :
        trace[i].ev = "ret" /\ trace[i].op = "authenticate" /\ trace[i].res.ok

\* into_authenticated was called
Promoted == \E i \in 1..Len(trace) : trace[i].ev = "into"

\* C5, as the claim states it: an authenticated connection derived from an
\* unauthenticated connection exists only if an authenticate call on that
\* connection returned success before.
C5_AuthenticatedOnlyAfterAuthenticate == aconn # None => AuthenticateSucceeded

\* C5, amended: an authenticated connection derived from an unauthenticated
\* connection exists only if into_authenticated was called on that
\* connection; authenticate itself produces none, whatever it returns.
C5_AuthenticatedOnlyByIntoAuthenticated == aconn # None => Promoted

\* the connection was promoted after authenticate had returned success
C5_Witness == aconn # None /\ Promoted /\ AuthenticateSucceeded

\* C6: into_authenticated consumes the unauthenticated connection, so that no
\* load_protocol_info or authenticate runs on it afterwards, and the
\* authenticated connection uses the same stream and has no event handler.
C6_PromotionIsOneWay ==
    /\ aconn # None =>
        /\ uconn = None
        /\ aconn[1].conn = Conn_new("stream")
        /\ aconn[1].async_event_handler = None
    /\ \A i \in 1..Len(trace) : trace[i].ev = "into" => i = Len(trace)
    /\ Promoted => call = Idle

\* the connection was promoted after a call on it, with a call to spare
C6_Witness ==
    /\ aconn # None
    /\ ncalls > 0
    /\ ncalls < MaxCalls

\* C7: every load_protocol_info call after the first one fails with
\* InfoFetchedTwice without writing or reading, whatever the outcome of the
\* first call was.  It is stated for a first call that wrote its request and
\* read a reply of the daemon, whatever the reply was.
C7_ProtocolInfoFetchedOnce ==
    \A i, j \in 1..Len(trace) :
        ( /\ i < j
          /\ trace[i].ev = "call" /\ trace[i].op = "load_protocol_info"
          /\ i + 2 <= Len(trace) /\ trace[i + 1].ev = "write"
          /\ IsReply(i + 2, "receive_data")
          /\ trace[j].ev = "call" /\ trace[j].op = "load_protocol_info" ) =>
            /\ trace[j + 1].ev = "ret"
            /\ trace[j + 1].res = Error("InfoFetchedTwice")

\* entry j is the return of an authenticate call that read the reply to its
\* AUTHENTICATE request: the request was written and a reply to it was read
\* "AUTHENTICATE"
ReturnsAfterFinalReply(j) ==
    /\ j > 2
    /\ trace[j].ev = "ret"
    /\ trace[j].op = "authenticate"
    /\ IsReply(j - 1, "receive_data")
    /\ trace[j - 2].ev = "write"
    /\ StartsWith(trace[j - 2].bytes, <<65,85,84,72,69,78,84,73,67,65,84,69>>)

\* C8: for every variant of the auth data, authenticate returns success
\* exactly when the reply to the final AUTHENTICATE request has status 250,
\* and InvalidResponseCode with the status received for every other status.
C8_AuthenticateResult ==
    \A j \in 1..Len(trace) :
        (trace[j].ev = "ret" /\ trace[j].op = "authenticate") =>
            /\ ReturnsAfterFinalReply(j) =>
                    trace[j].res = IF trace[j - 1].rcv.code = 250 THEN Ok(<<>>)
                                   ELSE ErrInvalidResponseCode(trace[j - 1].rcv.code)
            /\ trace[j].res.ok =>
                    ReturnsAfterFinalReply(j) /\ trace[j - 1].rcv.code = 250

\* one authenticate call failed on status 515, another one succeeded
C8_Witness ==
    \E i, j \in 1..Len(trace) :
        /\ ReturnsAfterFinalReply(i)
        /\ trace[i].res = ErrInvalidResponseCode(515)
        /\ ReturnsAfterFinalReply(j)
        /\ trace[j].res.ok

\* C9: the client nonce of SafeCookie is 32 bytes long: the AUTHCHALLENGE
\* SAFECOOKIE request carries exactly 64 hexadecimal characters of nonce.
C9_ClientNonceIs32Bytes ==
    \A i \in 1..Len(wire) :
        StartsWith(wire[i], AUTHCHALLENGE_PREFIX) =>
            Len(wire[i]) = Len(AUTHCHALLENGE_PREFIX) + 2 * 32 + Len(CRLF)

\* "0123456789ABCDEF"
UpperHexDigits == {48, 49, 50, 51, 52, 53, 54, 55, 56, 57, 65, 66, 67, 68, 69, 70}

\* entry i is the AUTHENTICATE request of a SafeCookie authentication: the
\* entries before it are the call, the AUTHCHALLENGE request and its reply
IsSafeCookieAuthenticate(i) ==
    /\ i > 3
    /\ trace[i].ev = "write"
    /\ trace[i].op = "authenticate"
    /\ trace[i - 1].ev = "read"
    /\ trace[i - 2].ev = "write"
    /\ StartsWith(trace[i - 2].bytes, AUTHCHALLENGE_PREFIX)
    /\ trace[i - 3].ev = "call"

\* HMAC-SHA256 keyed with the controller-to-server constant over the cookie
\* k, the nonce that the hexadecimal text hex_n_c gives and the nonce that
\* the hexadecimal text hex_n_s gives
ExpectedClientHash(k, hex_n_c, hex_n_s) ==
    hmac_result_code(
        [key |-> TOR_SAFECOOKIE_CONSTANT,
         message |-> k \o hex_decode_to_slice(hex_n_c, Len(hex_n_c) \div 2)[1]
                       \o hex_decode_to_slice(hex_n_s, Len(hex_n_s) \div 2)[1]])

\* C10: the AUTHENTICATE request of SafeCookie carries the uppercase hex of
\* HMAC-SHA256, keyed with the controller-to-server constant, over
\* k || n_c || n_s: k the cookie, n_c the client nonce sent in the
\* AUTHCHALLENGE request before, n_s the server nonce of the reply to it.
C10_SafeCookieClientHash ==
    \A i \in 1..Len(trace) :
        IsSafeCookieAuthenticate(i) =>
            /\ trace[i].bytes =
                AUTHENTICATE_PREFIX
                \o hex_encode_upper(
                    ExpectedClientHash(
                        trace[i - 3].bytes,
                        SubSeq(trace[i - 2].bytes, Len(AUTHCHALLENGE_PREFIX) + 1,
                               Len(trace[i - 2].bytes) - 2),
                        SubSeq(trace[i - 1].rcv.lines[1],
                               Len(trace[i - 1].rcv.lines[1]) - 63,
                               Len(trace[i - 1].rcv.lines[1]))))
                \o CRLF
            /\ Len(trace[i].bytes) = Len(AUTHENTICATE_PREFIX) + 64 + 2
            /\ \A k \in (Len(AUTHENTICATE_PREFIX) + 1)..(Len(trace[i].bytes) - 2) :
                    trace[i].bytes[k] \in UpperHexDigits

\* a SafeCookie authentication wrote its AUTHENTICATE request
C10_Witness == \E i \in 1..Len(trace) : IsSafeCookieAuthenticate(i)

\* C11: cookie bodies given to AUTHENTICATE are exactly 32 bytes: authenticate
\* called with Cookie or SafeCookie data whose cookie has another length
\* fails and sends no AUTHENTICATE or AUTHCHALLENGE request.
C11_CookieBodyLengthChecked ==
    \A i \in 1..Len(trace) :
        ( /\ trace[i].ev = "call" /\ trace[i].op = "authenticate"
          /\ trace[i].via \in {"Cookie", "SafeCookie"}
          /\ Len(trace[i].bytes) # COOKIE_LENGTH ) =>
            /\ i + 1 <= Len(trace)
            /\ trace[i + 1].ev = "ret"
            /\ ~trace[i + 1].res.ok


\* the auth data the order Null, SafeCookie, Cookie gives for the info
\* `self` and the 32 bytes `cookie` read from the cookie file
FirstAvailableAuthData(self, cookie) ==
    IF "Null" \in self.auth_methods THEN Some(TorAuthData("Null", <<>>))
    ELSE IF "SafeCookie" \in self.auth_methods /\ self.cookie_file # None
        THEN Some(TorAuthData("SafeCookie", cookie))
    ELSE IF "Cookie" \in self.auth_methods /\ self.cookie_file # None
        THEN Some(TorAuthData("Cookie", cookie))
    ELSE None

\* C12: make_auth_data picks the first available method in the order Null,
\* SafeCookie, Cookie: Null when Null is advertised; otherwise the SafeCookie
\* variant with the 32 cookie bytes when SafeCookie is advertised and a
\* cookie file is known; otherwise the Cookie variant when Cookie is
\* advertised and a cookie file is known; never HashedPassword, and no auth
\* data when none of these cases applies.
C12_MakeAuthDataOrder ==
    \A j \in 1..Len(trace) :
        ( /\ trace[j].ev = "ret" /\ trace[j].op = "make_auth_data"
          /\ trace[j].res.ok ) =>
            trace[j].res.val =
                FirstAvailableAuthData(
                    uconn[1].protocol_info[1],
                    IF trace[j - 1].ev = "file"
                    THEN SubSeq(trace[j - 1].bytes, 1, COOKIE_LENGTH) ELSE <<>>)

(***************************************************************************)
(* Replies as the daemon writes them: a reply is a code and a sequence of  *)
(* lines [mode, payload] with mode "-" (mid line), "+" (data line) or " "  *)
(* (final line).                                                           *)
(***************************************************************************)
\* the three digits of a code
CodeDigits(code) ==
    <<48 + (code \div 100), 48 + ((code \div 10) % 10), 48 + (code % 10)>>

Line(mode, payload) == [mode |-> mode, payload |-> payload]

\* the bytes of one line
RenderLine(code, line) ==
    CodeDigits(code)
        \o (IF line.mode = "-" THEN <<45>> ELSE IF line.mode = "+" THEN <<43>> ELSE <<32>>)
        \o line.payload
        \o (IF line.mode = "+" THEN <<13, 10, 46, 13, 10>> ELSE <<13, 10>>)

RECURSIVE RenderLines(_, _)
RenderLines(code, lines) ==
    IF lines = <<>> THEN <<>>
    ELSE RenderLine(code, Head(lines)) \o RenderLines(code, Tail(lines))

\* the mid lines and data lines the daemon writes
NonFinalLines ==
    { Line("-", <<65>>),                        \* A
      Line("+", <<66,13,10,32,115>>),           \* B\r\n s
      Line("+", <<67,13,10,46,120>>) }          \* C\r\n.x

\* the sequences of at most n mid lines and data lines
NonFinalSeqs(n) == UNION { [1..k -> NonFinalLines] : k \in 0..n }

\* the well-formed replies with code 250: mid and data lines, then the final
\* line "250 OK"
WellFormedReplies ==
    { ls \o <<Line(" ", <<79, 75>>)>> : ls \in NonFinalSeqs(MaxChunks - 1) }

\* the payloads of the lines
Payloads(lines) == [i \in 1..Len(lines) |-> lines[i].payload]

\* C13: for every well-formed reply, receive_data returns the code and one
\* string per line in stream order: a mid line and a final line give the
\* payload without its CRLF, a data line gives one string with all bytes,
\* embedded CRLFs included, up to the CRLF-dot-CRLF terminator; the reply ends
\* at the first final line.
C13_WellFormedReplyFramed ==
    \A i \in 1..Len(trace) : \A reply \in WellFormedReplies :
        ( /\ trace[i].ev = "read" /\ trace[i].op = "receive_data"
          /\ StartsWith(trace[i].bytes, RenderLines(250, reply)) ) =>
            trace[i].rcv = RecvOk(250, Payloads(reply), Len(RenderLines(250, reply)))

\* a reply with a mid line, a data line that holds a CRLF, and the final line
\* was returned, and it was all the stream held
C13_Witness ==
    \E i \in 1..Len(trace) :
        /\ trace[i].ev = "read" /\ trace[i].op = "receive_data"
        /\ trace[i].rcv.st = "ok"
        /\ trace[i].rcv.lines = <<<<65>>, <<66,13,10,32,115>>, <<79, 75>>>>
        /\ trace[i].rcv.used = Len(trace[i].bytes)

\* bytes ends with tail
EndsWith(bytes, tail) ==
    /\ Len(bytes) >= Len(tail)
    /\ SubSeq(bytes, Len(bytes) - Len(tail) + 1, Len(bytes)) = tail

\* C14: receive_data never succeeds on a truncated reply: a call returns a
\* reply only when the CRLF of a final line has been read, so that the bytes
\* it consumed end with the final line; when the stream ends before that, the
\* call fails.
C14_NoReplyFromTruncatedInput ==
    \A i \in 1..Len(trace) :
        ( /\ trace[i].ev = "read" /\ trace[i].op = "receive_data"
          /\ trace[i].rcv.st = "ok" ) =>
            /\ Len(trace[i].rcv.lines) >= 1
            /\ EndsWith(SubSeq(trace[i].bytes, 1, trace[i].rcv.used),
                        RenderLine(trace[i].rcv.code,
                                   Line(" ", trace[i].rcv.lines[Len(trace[i].rcv.lines)])))

\* the stream ended after a mid line and a data line without its terminator,
\* and the call failed
C14_Witness ==
    \E i \in 1..Len(trace) :
        /\ trace[i].ev = "read" /\ trace[i].op = "receive_data"
        /\ trace[i].bytes = LINE_MID \o LINE_DATA_OPEN
        /\ trace[i].rcv.st = "err"
        /\ trace[i].rcv.err = "IOError"

\* the ways to write `lines` as a reply: a mode for each line, the last one
\* the final line
RepliesOf(lines) ==
    { [i \in 1..Len(lines) |->
          Line(IF i = Len(lines) THEN " " ELSE modes[i], lines[i])] :
      modes \in [1..(Len(lines) - 1) -> {"-", "+"}] }

\* C15: within one reply all lines carry the same code: receive_data fails
\* with ResponseCodeMismatch as soon as the three digits of a later line,
\* also of a line that follows a data line, differ from the code of the first
\* line, and on success the returned code is the code of every line.
C15_OneCodePerReply ==
    \A i \in 1..Len(trace) :
        (trace[i].ev = "read" /\ trace[i].op = "receive_data") =>
            /\ \A ls \in NonFinalSeqs(MaxChunks - 1) :
                  ( /\ ls # <<>>
                    /\ StartsWith(trace[i].bytes,
                                  RenderLines(250, ls) \o CodeDigits(515)) ) =>
                      trace[i].rcv = RecvErr("ResponseCodeMismatch",
                                             Len(RenderLines(250, ls)) + 3)
            /\ trace[i].rcv.st = "ok" =>
                  \E reply \in RepliesOf(trace[i].rcv.lines) :
                      SubSeq(trace[i].bytes, 1, trace[i].rcv.used)
                          = RenderLines(trace[i].rcv.code, reply)

\* a line with the code 515 followed a mid line and a data line of a reply
\* with the code 250, and the call failed at its third digit
C15_Witness ==
    \E i \in 1..Len(trace) :
        /\ trace[i].ev = "read" /\ trace[i].op = "receive_data"
        /\ trace[i].bytes = LINE_MID \o LINE_DATA \o LINE_OTHER_CODE
        /\ trace[i].rcv = RecvErr("ResponseCodeMismatch",
                                  Len(LINE_MID \o LINE_DATA) + 3)

\* the bytes of `bytes` that are not ASCII
NonAsciiAt(bytes) == {n \in 1..Len(bytes) : bytes[n] >= 128}

\* C17: receive_data fails with NonAsciiByteFound on the first non-ASCII byte
\* it reads, in whatever framer state the byte arrives: no call reads past
\* such a byte, and every line of a returned reply is pure ASCII.
C17_NonAsciiByteEndsCall ==
    \A i \in 1..Len(trace) :
        (trace[i].ev = "read" /\ trace[i].op = "receive_data") =>
            /\ \A n \in NonAsciiAt(trace[i].bytes) :
                  trace[i].rcv.used >= n =>
                      /\ n = Min(NonAsciiAt(trace[i].bytes))
                      /\ trace[i].rcv = RecvErr("NonAsciiByteFound", n)
            /\ \A l \in 1..Len(trace[i].rcv.lines) :
                  NonAsciiAt(trace[i].rcv.lines[l]) = {}

\* a non-ASCII byte arrived in the payload of a data line and ended the call
C17_Witness ==
    \E i \in 1..Len(trace) :
        /\ trace[i].ev = "read" /\ trace[i].op = "receive_data"
        /\ trace[i].bytes = LINE_DATA_OPEN \o NON_ASCII
        /\ trace[i].rcv = RecvErr("NonAsciiByteFound", Len(LINE_DATA_OPEN) + 1)

\* CR LF '.' CR LF
DATA_TERMINATOR == <<13, 10, 46, 13, 10>>

\* the bytes of `bytes` at which a data-line terminator is complete
TerminatorEnds(bytes) ==
    {n \in 5..Len(bytes) : SubSeq(bytes, n - 4, n) = DATA_TERMINATOR}

\* C18: in data-line mode the block ends only when CR LF '.' CR LF are the
\* last five bytes read since the '+': the returned line is everything up to
\* the first complete terminator, so a CR LF '.' that is not followed by CR LF
\* and internal CR LF pairs stay in it, and after the terminator a further
\* line is expected: the reply never ends with the data line.
C18_DataLineTerminator ==
    \A i \in 1..Len(trace) :
        (trace[i].ev = "read" /\ trace[i].op = "receive_data") =>
            /\ \A line \in {l \in NonFinalLines : l.mode = "+"} :
                  /\ StartsWith(trace[i].bytes,
                                RenderLine(250, line) \o LINE_FINAL) =>
                        trace[i].rcv = RecvOk(250, <<line.payload, <<79, 75>>>>,
                                              Len(RenderLine(250, line) \o LINE_FINAL))
                  /\ trace[i].bytes = RenderLine(250, line) =>
                        trace[i].rcv = RecvErr("IOError", Len(trace[i].bytes))
            /\ trace[i].rcv.st = "ok" =>
                  \E reply \in RepliesOf(trace[i].rcv.lines) :
                      /\ SubSeq(trace[i].bytes, 1, trace[i].rcv.used)
                            = RenderLines(trace[i].rcv.code, reply)
                      /\ \A l \in 1..Len(reply) :
                            reply[l].mode = "+" =>
                                TerminatorEnds(reply[l].payload \o DATA_TERMINATOR)
                                    = {Len(reply[l].payload) + 5}
                      /\ reply[Len(reply)].mode = " "

\* a data line whose payload holds CR LF '.' 'x' was returned whole, followed
\* by the final line
C18_Witness ==
    \E i \in 1..Len(trace) :
        /\ trace[i].ev = "read" /\ trace[i].op = "receive_data"
        /\ trace[i].bytes = LINE_DATA_OPEN \o DOT_CRLF \o LINE_FINAL
        /\ trace[i].rcv = RecvOk(250, <<<<67,13,10,46,120>>, <<79,75>>>>,
                                 Len(trace[i].bytes))

\* the reply "250 A...A\r\n" with n letters
OneLineReply(n) == RenderLine(250, Line(" ", Repeat(65, n)))

\* C16: receive_data fails with TooManyBytesRead for every reply whose total
\* length in bytes exceeds the ceiling, and succeeds for a well-formed reply
\* that is ceiling - 1 bytes long.  The ceiling of the source is 1 MiB; the
\* calls of this specification run with the ceiling Ceiling.
C16_CeilingOnBytesRead ==
    /\ MAX_SINGLE_RECV_BYTES = 1048576
    /\ \A i \in 1..Len(trace) : \A n \in 0..(2 * Ceiling) :
        ( /\ trace[i].ev = "read" /\ trace[i].op = "receive_data"
          /\ StartsWith(trace[i].bytes, OneLineReply(n)) ) =>
            /\ Len(OneLineReply(n)) > Ceiling =>
                  trace[i].rcv = RecvErr("TooManyBytesRead", Ceiling)
            /\ Len(OneLineReply(n)) = Ceiling - 1 =>
                  trace[i].rcv = RecvOk(250, <<Repeat(65, n)>>, Ceiling - 1)

\* one call was given a reply of Ceiling - 1 bytes and returned it, another a
\* reply of more than Ceiling bytes and failed
C16_Witness ==
    \E i, j \in 1..Len(trace) : \E n, m \in 0..(2 * Ceiling) :
        /\ trace[i].ev = "read" /\ trace[j].ev = "read"
        /\ StartsWith(trace[i].bytes, OneLineReply(n))
        /\ Len(OneLineReply(n)) = Ceiling - 1
        /\ trace[i].rcv.st = "ok"
        /\ StartsWith(trace[j].bytes, OneLineReply(m))
        /\ Len(OneLineReply(m)) > Ceiling
        /\ trace[j].rcv.err = "TooManyBytesRead"

(***************************************************************************)
(* Argument validation.                                                    *)
(***************************************************************************)
ValidationErrors ==
    {"InvalidKeywordValue", "InvalidEventName", "InvalidOnionServiceIdentifier",
     "InvalidListenerSpecification"}

ValidatingCommands ==
    {"set_conf_multiple", "get_conf", "get_info_multiple", "set_events",
     "del_onion", "add_onion_v3"}

\* entry i is the return of an argument-validation error
IsValidationError(i) ==
    /\ trace[i].ev = "ret"
    /\ trace[i].op \in ValidatingCommands
    /\ ~trace[i].res.ok
    /\ trace[i].res.err \in ValidationErrors

\* the requests written, as the trace has them
RequestsOf(writes) == [k \in 1..Len(writes) |-> writes[k].bytes]

\* C19: whenever set_conf_multiple, get_conf, get_info_multiple, set_events,
\* del_onion or add_onion_v3 returns an argument-validation error, the call
\* has written nothing and read nothing: its return follows its start at
\* once, the requests on the wire are those of the other calls, and no
\* call is left in flight, so that the next command can be made.
C19_ValidationErrorBeforeAnyByte ==
    /\ \A i \in 1..Len(trace) :
        IsValidationError(i) =>
            /\ i > 1
            /\ trace[i - 1].ev = "call"
            /\ trace[i - 1].n = trace[i].n
            /\ trace[i - 1].op = trace[i].op
            /\ \A j \in 1..Len(trace) :
                trace[j].ev \in {"write", "read"} => trace[j].n # trace[i].n
    /\ wire = RequestsOf(SelectSeq(trace, LAMBDA e : e.ev = "write"))
    /\ (Len(trace) > 0 /\ IsValidationError(Len(trace))) => call = Idle

\* a call returned a validation error, and the next call wrote its request,
\* read its reply and returned success
C19_Witness ==
    \E i \in 1..Len(trace) :
        /\ IsValidationError(i)
        /\ i + 4 = Len(trace)
        /\ trace[i + 1].ev = "call"
        /\ trace[i + 2].ev = "write"
        /\ trace[i + 3].ev = "read"
        /\ trace[i + 4].ev = "ret" /\ trace[i + 4].res.ok

(***************************************************************************)
(* The request of SETCONF.                                                 *)
(***************************************************************************)
\* a space, the key and, with a value, '=' and the quoted value
RenderOption(option) ==
    <<32>> \o option.k
        \o (IF option.value = None THEN <<>> ELSE <<61>> \o quote_string(option.value[1]))

\* "SETCONF", the options in order, CRLF
RenderSetConf(options) ==
    <<83,69,84,67,79,78,70>>
        \o Concat([i \in 1..Len(options) |-> RenderOption(options[i])])
        \o <<13,10>>

\* the keys of the options are keywords: upper-case letters and underscores
AllKeywords(options) ==
    \A i \in 1..Len(options) :
        /\ Len(options[i].k) > 0
        /\ \A j \in 1..Len(options[i].k) :
            options[i].k[j] \in 65..90 \/ options[i].k[j] = 95

\* the trace grows by the start of a call and its return of Ok(())
ReturnsOkAtOnce ==
    /\ Len(trace') = Len(trace) + 2
    /\ SubSeq(trace', 1, Len(trace)) = trace
    /\ trace'[Len(trace) + 1].ev = "call"
    /\ trace'[Len(trace) + 2].ev = "ret"
    /\ trace'[Len(trace) + 2].res = Ok(<<>>)

\* C20: set_conf_multiple with one or more options writes exactly "SETCONF"
\* followed, for each option in order, by a space, the key and, when a
\* value is given, '=' and the quoted value, then CRLF, and nothing else;
\* with no options it writes nothing, reads nothing and returns Ok(()).
C20_SetConfRequest ==
    [][\A options \in SetConfLists :
        SetConfMultiple(options) =>
            IF options = <<>>
            THEN wire' = wire /\ inbox' = inbox /\ call' = Idle /\ ReturnsOkAtOnce
            ELSE /\ wire' # wire => wire' = Append(wire, RenderSetConf(options))
                 /\ AllKeywords(options) /\ ~closed => wire' # wire]_vars

\* the call without options returned success, and the call with
\* SOCKSPORT=9050 and ORPORT wrote `SETCONF SOCKSPORT="9050" ORPORT` and CRLF
C20_Witness ==
    /\ Len(trace) >= 4
    /\ trace[1].ev = "call" /\ trace[1].op = "set_conf_multiple"
    /\ trace[2].ev = "ret" /\ trace[2].res = Ok(<<>>)
    /\ trace[3].ev = "call" /\ trace[3].op = "set_conf_multiple"
    /\ trace[4].ev = "write"
    /\ wire = << <<83,69,84,67,79,78,70,32,83,79,67,75,83,80,79,82,84,61,34,57,48,53,48,34,
                   32,79,82,80,79,82,84,13,10>> >>

(***************************************************************************)
(* The result of GETINFO.                                                  *)
(***************************************************************************)
\* the index of the first '=' of a line, or its length plus one
EqualsAt(line) == Min({i \in 1..Len(line) : line[i] = 61} \cup {Len(line) + 1})

\* a letter, a digit or one of '_', ' ', '-', '/', '$'
IsKeyChar(c) ==
    \/ c \in 48..57 \/ c \in 65..90 \/ c \in 97..122
    \/ c \in {95, 32, 45, 47, 36}

\* the line is KEY=VALUE
IsKeyValue(line) ==
    /\ EqualsAt(line) <= Len(line)
    /\ \A j \in 1..(EqualsAt(line) - 1) : IsKeyChar(line[j])

KeyOf(line) == SubSeq(line, 1, EqualsAt(line) - 1)
ValueOf(line) == SubSeq(line, EqualsAt(line) + 1, Len(line))

\* how often each option was requested
TimesRequested(options) ==
    [k \in {options[i] : i \in 1..Len(options)} |->
        Cardinality({i \in 1..Len(options) : options[i] = k})]

\* the reply answers the request: status 250, the last line is OK, the
\* other lines are KEY=VALUE with the requested keys, each as often as it
\* was requested
AnswersGetInfo(code, lines, requested) ==
    /\ code = 250
    /\ lines[Len(lines)] = <<79,75>>
    /\ \A i \in 1..(Len(lines) - 1) : IsKeyValue(lines[i])
    /\ {KeyOf(lines[i]) : i \in 1..(Len(lines) - 1)} = DOMAIN requested
    /\ \A k \in DOMAIN requested :
        Cardinality({i \in 1..(Len(lines) - 1) : KeyOf(lines[i]) = k}) = requested[k]

\* the values of the lines, in order
ValuesOf(lines) == [i \in 1..Len(lines) |-> ValueOf(lines[i])]

\* the map of the reply: for each key its values in reply order
InfoOf(lines) ==
    [k \in {KeyOf(lines[i]) : i \in 1..(Len(lines) - 1)} |->
        ValuesOf(SelectSeq(SubSeq(lines, 1, Len(lines) - 1), LAMBDA l : KeyOf(l) = k))]

\* C21: get_info_multiple returns success only when the reply has status
\* 250, its last line is OK and the other lines are KEY=VALUE pairs whose
\* keys are the requested keys, each with as many values as it was
\* requested; its result is then the map of these values; every other reply
\* gives InvalidResponseCode or InvalidFormat; an empty request returns the
\* empty map at once, without a write.
C21_GetInfoResult ==
    [][/\ \A options \in GetInfoLists :
          \A is_valid_option \in [InfoOptions -> BOOLEAN] :
            GetInfoMultiple(options, is_valid_option) =>
                /\ options = <<>> =>
                        wire' = wire /\ inbox' = inbox /\ call' = Idle /\ ReturnsOkAtOnce
                /\ call' # Idle => call'.args = TimesRequested(options)
       /\ (call.op = "get_info_multiple" /\ call.pc = "recv_response" /\ call' = Idle
            /\ trace'[Len(trace') - 1].rcv.st = "ok") =>
                /\ trace'[Len(trace')].res.ok <=>
                        AnswersGetInfo(trace'[Len(trace') - 1].rcv.code,
                                       trace'[Len(trace') - 1].rcv.lines, call.args)
                /\ trace'[Len(trace')].res.ok =>
                        trace'[Len(trace')].res.val = InfoOf(trace'[Len(trace') - 1].rcv.lines)
                /\ ~trace'[Len(trace')].res.ok =>
                        trace'[Len(trace')].res.err \in {"InvalidResponseCode", "InvalidFormat"}
      ]_vars

\* "version" was requested twice, the reply held two values of it, and the
\* call returned both in order
C21_Witness ==
    /\ Len(trace) >= 4
    /\ trace[Len(trace)].ev = "ret" /\ trace[Len(trace)].op = "get_info_multiple"
    /\ trace[Len(trace)].res.ok
    /\ DOMAIN trace[Len(trace)].res.val = {<<118,101,114,115,105,111,110>>}
    /\ trace[Len(trace)].res.val[<<118,101,114,115,105,111,110>>]
            = << <<49,46,50,46,51,46,52>>, <<52,46,51,46,50,46,49>> >>

\* the key a line of a GETCONF reply names: the whole line when it holds no
\* '=', otherwise the text before the first '='
ConfKey(line) == IF EqualsAt(line) > Len(line) THEN line ELSE KeyOf(line)

Upper(s) == [i \in 1..Len(s) |-> IF s[i] \in 97..122 THEN s[i] - 32 ELSE s[i]]

\* u is the value the text v stands for: v itself, or the string v is the
\* quoted form of
IsUnquotedOf(u, v) == IF v # <<>> /\ v[1] = 34 THEN quote_string(u) = v ELSE u = v

\* the element a line of a GETCONF reply gives
IsConfElement(e, line) ==
    IF EqualsAt(line) > Len(line) THEN e = None
    ELSE e # None /\ IsUnquotedOf(e[1], ValueOf(line))

\* the reply echoes one key, the option k up to ASCII case
EchoesOnly(lines, k) ==
    /\ Cardinality({ConfKey(lines[i]) : i \in 1..Len(lines)}) = 1
    /\ Upper(ConfKey(lines[1])) = Upper(k)

\* the values of the reply are raw values or whole quoted strings
ValuesWellFormed(lines) ==
    \A i \in 1..Len(lines) :
        \/ EqualsAt(lines[i]) > Len(lines[i])
        \/ ValueOf(lines[i]) # <<>> /\ ValueOf(lines[i])[1] # 34
        \/ \E n \in 0..Len(ValueOf(lines[i])) :
              quote_string(SubSeq(ValueOf(lines[i]), 2, n)) = ValueOf(lines[i])

\* C22: get_conf(k) returns one element per reply line in reply order, None
\* for a line that holds only the option name and Some(unquoted value) for a
\* KEY=VALUE line; it succeeds only when the single key of the reply equals
\* k ignoring ASCII case; a status other than 250 gives InvalidResponseCode,
\* another key or more than one key gives InvalidFormat.
C22_GetConfResult ==
    [][(call.op = "get_conf" /\ call.pc = "recv_response" /\ call' = Idle
         /\ trace'[Len(trace') - 1].rcv.st = "ok") =>
            /\ trace'[Len(trace') - 1].rcv.code # 250 =>
                    trace'[Len(trace')].res =
                        ErrInvalidResponseCode(trace'[Len(trace') - 1].rcv.code)
            /\ (trace'[Len(trace') - 1].rcv.code = 250
                 /\ ~EchoesOnly(trace'[Len(trace') - 1].rcv.lines, call.args)) =>
                    trace'[Len(trace')].res = Error("InvalidFormat")
            /\ (trace'[Len(trace') - 1].rcv.code = 250
                 /\ EchoesOnly(trace'[Len(trace') - 1].rcv.lines, call.args)
                 /\ ValuesWellFormed(trace'[Len(trace') - 1].rcv.lines)) =>
                    trace'[Len(trace')].res.ok
            /\ trace'[Len(trace')].res.ok =>
                    /\ trace'[Len(trace') - 1].rcv.code = 250
                    /\ EchoesOnly(trace'[Len(trace') - 1].rcv.lines, call.args)
                    /\ Len(trace'[Len(trace')].res.val) =
                            Len(trace'[Len(trace') - 1].rcv.lines)
                    /\ \A i \in 1..Len(trace'[Len(trace') - 1].rcv.lines) :
                            IsConfElement(trace'[Len(trace')].res.val[i],
                                          trace'[Len(trace') - 1].rcv.lines[i])
      ]_vars

\* get_conf("SOCKSPORT") answered by SocksPort="12" and SocksPort returns
\* Some("12") and None
C22_Witness ==
    /\ Len(trace) > 1
    /\ trace[Len(trace)].ev = "ret"
    /\ trace[Len(trace)].op = "get_conf"
    /\ trace[Len(trace)].res.ok
    /\ trace[Len(trace)].res.val = <<Some(<<49,50>>), None>>
    /\ trace[Len(trace) - 1].rcv.lines[2] = <<83,111,99,107,115,80,111,114,116>>

(***************************************************************************)
(* The request of ADD_ONION.                                               *)
(***************************************************************************)
\* "ADD_ONION ED25519-V3:QUJD Flags=DiscardPK Port=15787,127.0.0.1:15787\r\n"
ADD_ONION_ONE_PORT == <<65,68,68,95,79,78,73,79,78,32,69,68,50,53,53,49,57,45,86,51,58,81,85,74,68,32,70,108,97,103,115,61,68,105,115,99,97,114,100,80,75,32,80,111,114,116,61,49,53,55,56,55,44,49,50,55,46,48,46,48,46,49,58,49,53,55,56,55,13,10>>

\* C23: add_onion_v3 with the encoded key B, no optional flag, no stream
\* limit and the single listener (15787, 127.0.0.1:15787) writes exactly
\* "ADD_ONION ED25519-V3:B Flags=DiscardPK Port=15787,127.0.0.1:15787" and
\* CRLF, and no other byte.
C23_AddOnionRequest ==
    [][AddOnionV3(KEY_BLOB, FALSE, FALSE, FALSE, None, <<LISTENER_15787>>) =>
        /\ wire' # wire => wire' = Append(wire, ADD_ONION_ONE_PORT)
        /\ ~closed => wire' # wire]_vars

\* the ports of two listeners of the list are equal
RepeatsPort(listeners) ==
    \E i, j \in 1..Len(listeners) : i # j /\ listeners[i].port = listeners[j].port

\* the step is a call that fails with the error e without a write or a read
FailsAtOnce(e) ==
    /\ wire' = wire /\ inbox' = inbox /\ call' = Idle
    /\ Len(trace') = Len(trace) + 2
    /\ trace'[Len(trace) + 1].ev = "call"
    /\ trace'[Len(trace) + 2].ev = "ret"
    /\ trace'[Len(trace) + 2].res = Error(e)

\* C24: add_onion_v3 fails with InvalidListenerSpecification, before any
\* byte is written, when the listener list is empty or two listeners have
\* the same virtual port, whatever their addresses and their places in the
\* list.
C24_InvalidListeners ==
    [][\A flags \in OnionFlagChoices, max_num_streams \in MaxNumStreamsChoices :
       \A listeners \in OnionListenerLists :
          (/\ AddOnionV3(KEY_BLOB, flags[1], flags[2], flags[3], max_num_streams, listeners)
           /\ (listeners = <<>> \/ RepeatsPort(listeners)))
              => FailsAtOnce("InvalidListenerSpecification")]_vars

\* the list with port 80 as its first and its third listener, with two
\* addresses, was refused and nothing was written
C24_Witness ==
    /\ Len(trace) >= 2
    /\ trace[Len(trace)].ev = "ret"
    /\ trace[Len(trace)].op = "add_onion_v3"
    /\ trace[Len(trace)].res = Error("InvalidListenerSpecification")
    /\ wire = <<>>
    /\ setup_onion_service_call(FALSE, KEY_BLOB, FALSE, FALSE, FALSE, None,
                                <<LISTENER_80_1, LISTENER_81, LISTENER_80_2>>) = None

\* C25: resolve validates its hostname positively: for a valid hostname it
\* writes "RESOLVE hostname" and CRLF and awaits the reply, for an invalid
\* hostname it fails with InvalidHostnameValue without writing any byte.
C25_ResolveValidatesPositively ==
    [][\A hostname \in Hostnames :
       \A is_valid_hostname \in [Hostnames -> BOOLEAN] :
          Resolve(hostname, is_valid_hostname) =>
              IF is_valid_hostname[hostname]
              THEN /\ wire' # wire =>
                        /\ wire' = Append(wire, RESOLVE_PREFIX \o hostname \o CRLF)
                        /\ call'.op = "resolve" /\ call'.pc = "recv_response"
                   /\ ~closed => wire' # wire
              ELSE FailsAtOnce("InvalidHostnameValue")]_vars

(***************************************************************************)
(* The quoting codec.                                                      *)
(***************************************************************************)
\* C26: for every byte sequence b, unquote_string(quote_string(b)) returns
\* the offset of the last character of the quoted text together with b: as
\* a string when b is valid UTF-8, otherwise as the error that carries the
\* raw bytes b.
C26_UnquoteOfQuote ==
    \A i \in 1..Len(trace) :
        (/\ trace[i].op = "unquote_string"
         /\ trace[i].bytes = quote_string(call.args)) =>
            /\ trace[i].res.ok
            /\ trace[i].res.val =
                  Unquoted(Some(Len(trace[i].bytes) - 1), is_valid_utf8(call.args), call.args)

\* C27: quote_string is injective: the quoted form of a byte sequence is
\* the quoted form of no other byte sequence.
C27_QuoteInjective ==
    \A i \in 1..Len(trace) :
        trace[i].op = "quote_string" =>
            \A b \in ByteSeqs(QuoteBytes, MaxLen) :
                b # trace[i].bytes => quote_string(b) # trace[i].res.val

\* C28: on a valid UTF-8 text unquote_string returns without a panic; when
\* it returns Some(offset) the text starts with a double quote and the byte
\* at the offset is a double quote; a text that does not start with a
\* double quote is returned unchanged with the offset None.
C28_UnquoteNeverPanics ==
    \A i \in 1..Len(trace) :
        trace[i].op = "unquote_string" =>
            /\ trace[i].res.ok
            /\ trace[i].res.val.offset # None =>
                  /\ trace[i].bytes[1] = 34
                  /\ trace[i].bytes[trace[i].res.val.offset[1] + 1] = 34
            /\ (trace[i].bytes = <<>> \/ trace[i].bytes[1] # 34) =>
                  trace[i].res.val = Unquoted(None, TRUE, trace[i].bytes)

(***************************************************************************)
(* KEY=VALUE.                                                              *)
(***************************************************************************)
\* the text holds '=' and every byte before the first '=' is an ASCII
\* letter or digit or one of '_', ' ', '-', '/', '$'
HasKey(text) ==
    /\ EqualsAt(text) <= Len(text)
    /\ \A j \in 1..(EqualsAt(text) - 1) : IsKeyChar(text[j])

ParsedAsKeyValue(i, accepted) ==
    IF accepted
    THEN trace[i].res = Ok(<<KeyOf(trace[i].bytes), ValueOf(trace[i].bytes)>>)
    ELSE ~trace[i].res.ok

\* C29 as it is stated: parse_single_key_value returns (key, value) exactly
\* when the text contains '=', the key is nonempty and every key character
\* is allowed; for every other text it returns an error.
C29_KeyValueNonemptyKey ==
    \A i \in 1..Len(trace) :
        trace[i].op = "parse_single_key_value" =>
            ParsedAsKeyValue(i, HasKey(trace[i].bytes) /\ EqualsAt(trace[i].bytes) > 1)

\* C29, amended: parse_single_key_value returns (key, value), with key the
\* text before the first '=' and value everything after it unchanged,
\* exactly when the text contains '=' and every key character is an ASCII
\* letter or digit or one of '_', ' ', '-', '/', '$'; the key may be empty;
\* for every other text it returns an error.
C29_KeyValue ==
    \A i \in 1..Len(trace) :
        trace[i].op = "parse_single_key_value" => ParsedAsKeyValue(i, HasKey(trace[i].bytes))

\* the text ="K is parsed as the empty key and the value "K
C29_Witness ==
    /\ trace # <<>>
    /\ trace[Len(trace)].op = "parse_single_key_value"
    /\ trace[Len(trace)].bytes = <<61,34,75>>
    /\ trace[Len(trace)].res = Ok(<<<<>>, <<34,75>>>>)

(***************************************************************************)
(* The v3 onion address.                                                   *)
(***************************************************************************)
\* the address of the key drawn, as the checksum construction gives it
AddressOfDrawnKey == call.args \o onion_checksum(call.args)

\* what is said of every call but from_str: the address derived from the
\* key starts with the 32 bytes of the key, and get_public_key followed by
\* get_onion_address returns the address again
KeyAndAddress ==
    \A i \in 1..Len(trace) :
        /\ trace[i].op \in {"OnionAddressV3::from", "get_onion_address"} =>
              /\ Len(trace[i].res.val) = TORV3_ONION_ADDRESS_LENGTH_BYTES
              /\ SubSeq(trace[i].res.val, 1, 32) = trace[i].bytes
        /\ (trace[i].op = "get_onion_address" /\ i > 1 /\ trace[i - 1].op = "get_public_key"
            /\ trace[i - 1].res.val = trace[i].bytes) =>
              trace[i].res.val = trace[i - 1].bytes

\* C30 as it is stated: parsing the display form of the address derived
\* from a public key gives back that address; the first 32 bytes of the
\* address are the key; get_public_key followed by get_onion_address
\* returns the address again.
C30_ParseOfDisplay ==
    /\ KeyAndAddress
    /\ \A i \in 1..Len(trace) :
        (/\ trace[i].op = "from_str"
         /\ trace[i].bytes = OnionAddressV3_to_string(AddressOfDrawnKey)) =>
              trace[i].res = Ok(AddressOfDrawnKey)

\* C30, amended: parsing the display form without its ".onion" suffix, the
\* text of get_address_without_dot_onion, gives back the address derived
\* from the public key, and the display form itself is refused with
\* InvalidLength; the first 32 bytes of the address are the key;
\* get_public_key followed by get_onion_address returns the address again.
C30_ParseOfAddressWithoutDotOnion ==
    /\ KeyAndAddress
    /\ \A i \in 1..Len(trace) :
        trace[i].op = "from_str" =>
            /\ trace[i].bytes = get_address_without_dot_onion(AddressOfDrawnKey) =>
                  trace[i].res = Ok(AddressOfDrawnKey)
            /\ trace[i].bytes = OnionAddressV3_to_string(AddressOfDrawnKey) =>
                  trace[i].res = Error("InvalidLength")

\* the address of the key of the source's test was derived, written without
\* ".onion" as p53lf57qovyuvwsc6xnrppyply3vtqm7l6pcobkmyqsiofyeznfu5uqd and
\* parsed back
C30_Witness ==
    /\ Len(trace) = 3
    /\ trace[1].op \in {"OnionAddressV3::from", "get_onion_address"}
    /\ trace[2].op = "get_address_without_dot_onion"
    /\ trace[2].res.val = <<112,53,51,108,102,53,55,113,111,118,121,117,118,119,115,99,54,120,110,114,112,112,121,112,108,121,51,118,116,113,109,55,108,54,112,99,111,98,107,109,121,113,115,105,111,102,121,101,122,110,102,117,53,117,113,100>>
    /\ trace[3].op = "from_str"
    /\ trace[3].bytes = trace[2].res.val
    /\ trace[3].res = Ok(trace[1].res.val)

(***************************************************************************)
(* One bit of a valid address body changed.                                *)
(***************************************************************************)
\* the entries of from_str of the body with the bit drawn changed
ParsesAltered(i) == trace[i].op = "from_str" /\ trace[i].bytes = call.args.altered

\* the characters of the body before and after the change
OldChar == call.args.body[call.args.at]
NewChar == call.args.altered[call.args.at]

C31_AcceptedAsAnotherAddress ==
    /\ Len(trace) = 1
    /\ call.args.tpk = PUBLIC_KEY_4 /\ call.args.at = 32 /\ call.args.bit = 0
    /\ ParsesAltered(1)
    /\ trace[1].res.ok
    /\ get_public_key(trace[1].res.val) = [PUBLIC_KEY_4 EXCEPT ![20] = 187]

\* a body with one letter changed to upper case was returned as the address
\* it was the body of
C31_AcceptedInOtherCase ==
    /\ Len(trace) = 1
    /\ call.args.tpk = PUBLIC_KEY_2 /\ call.args.at = 1 /\ call.args.bit = 5
    /\ ParsesAltered(1)
    /\ trace[1].res = Ok(OnionAddressV3_from(PUBLIC_KEY_2))

(***************************************************************************)
(* TorPublicKeyV3.                                                         *)
(***************************************************************************)
\* C32: every TorPublicKeyV3 obtained from from_bytes, TorSecretKeyV3::public,
\* OnionAddressV3::get_public_key or deserialization holds 32 bytes that
\* decompress to a point of the curve, and from_bytes refuses bytes that do
\* not.
C32_PublicKeysAreCurvePoints ==
    \A i \in 1..Len(trace) :
        /\ (trace[i].op \in {"from_bytes", "public", "get_public_key", "deserialize"}
            /\ trace[i].res.ok) =>
              /\ Len(trace[i].res.val) = 32
              /\ is_curve_point(trace[i].res.val)
        /\ (trace[i].op = "from_bytes" /\ ~is_curve_point(trace[i].bytes)) =>
              ~trace[i].res.ok

\* what holds of from_bytes and public alone
C32_FromBytesAndPublic ==
    \A i \in 1..Len(trace) :
        /\ (trace[i].op \in {"from_bytes", "public"} /\ trace[i].res.ok) =>
              /\ Len(trace[i].res.val) = 32
              /\ is_curve_point(trace[i].res.val)
        /\ (trace[i].op = "from_bytes" /\ ~is_curve_point(trace[i].bytes)) =>
              trace[i].res = Error("PointDecompressionError")

\* from_bytes refused 32 bytes that are no point, and deserialization of
\* their base64, 2CZQKHFDedk/J9JwfBffwiVk6bs2ieDJqZdE/PvF+n8=, returned them
\* as a TorPublicKeyV3
C32_DeserializedNoPoint ==
    /\ Len(trace) = 2
    /\ trace[1].op = "from_bytes" /\ trace[1].bytes = NOT_A_POINT /\ ~trace[1].res.ok
    /\ trace[2].op = "deserialize" /\ trace[2].res = Ok(NOT_A_POINT)
    /\ trace[2].bytes = <<50,67,90,81,75,72,70,68,101,100,107,47,74,57,74,119,102,66,102,102,119,105,86,107,54,98,115,50,105,101,68,74,113,90,100,69,47,80,118,70,43,110,56,61>>

\* get_public_key returned 32 bytes that are no point
C32_GetPublicKeyNoPoint ==
    /\ Len(trace) = 2
    /\ trace[1].op = "from_str" /\ trace[1].res.ok
    /\ trace[2].op = "get_public_key" /\ trace[2].res = Ok(NOT_A_POINT)

(***************************************************************************)
(* run_tor.                                                                *)
(***************************************************************************)
\* the child's stdout is exhausted: closed, and every byte of it read
StdoutExhausted == call.args # <<>> /\ closed /\ inbox = <<>>

\* C33: run_tor always returns once the child's stdout is exhausted; when
\* the stdout closes before a line with "Opened Control listener" was read,
\* it returns an error and does not read for ever.
C33_RunTorReturns == StdoutExhausted ~> call.pc = "returned"

\* what run_tor returns: the child, not killed, right after the first line
\* with the text was read; an error, the child killed, right after a read
\* failed; and nothing else
C33_RunTorResults ==
    \A i \in 1..Len(trace) :
        (trace[i].ev = "ret" /\ i > 2) =>
            /\ trace[i - 1].ev = "read"
            /\ i = Len(trace)
            /\ IF trace[i].res.ok
               THEN /\ contains(trace[i - 1].bytes, OPENED_CONTROL_LISTENER)
                    /\ trace[i].res.val = [killed |-> FALSE]
                    /\ \A j \in 1..(i - 2) :
                          ~contains(trace[j].bytes, OPENED_CONTROL_LISTENER)
               ELSE /\ ~trace[i - 1].res.ok
                    /\ call.args.killed

\* the stdout was closed with no line read, and run_tor is in its loop
C33_ReadsAtEndOfStream ==
    /\ StdoutExhausted
    /\ call.pc = "read_line"
    /\ ENABLED RunTorLoop
    /\ \A i \in 1..Len(trace) : trace[i].ev # "read"

(***************************************************************************)
(* read_protocol_info.                                                     *)
(***************************************************************************)
\* entry i is a reply that read_protocol_info read, and entry i + 1 the
\* return of load_protocol_info
ReadsProtocolInfo(i) ==
    /\ trace[i].ev = "read"
    /\ trace[i].op = "load_protocol_info"
    /\ trace[i].rcv.st = "ok"
    /\ i < Len(trace)
    /\ trace[i + 1].ev = "ret"

\* C34: read_protocol_info on a reply with status 250 whose lines are
\* PROTOCOLINFO 1, one AUTH METHODS record, one VERSION Tor record and OK
\* returns the TorPreAuthInfo with the set of the methods of the list, the
\* unquoted COOKIEFILE when there is one and none otherwise, and the unquoted
\* version; the connection holds it until take_protocol_info takes it.
C34_ProtocolInfoParsed ==
    \A i \in 1..Len(trace) :
        (ReadsProtocolInfo(i) /\ trace[i].rcv.code = 250) =>
            \A r \in WellFormedInfoReplies :
                trace[i].rcv.lines = r.lines =>
                    /\ trace[i + 1].res = Ok(r.info)
                    /\ (i + 1 = Len(trace)) =>
                          /\ uconn[1].was_protocol_info_loaded
                          /\ get_protocol_info(uconn[1]) \in {Some(r.info), None}

\* the second reply of the source's test was read: the methods are Cookie and
\* SafeCookie, the cookie file is /home/user/.tor/control_auth_cookie and
\* the version 0.4.2.5
C34_Witness ==
    /\ Len(trace) = 4
    /\ ReadsProtocolInfo(3)
    /\ trace[3].rcv.code = 250
    /\ Len(trace[3].rcv.lines) = 4
    /\ trace[4].res.ok
    /\ trace[4].res.val.auth_methods = {"Cookie", "SafeCookie"}
    /\ trace[4].res.val.cookie_file = Some(<<47,104,111,109,101,47,117,115,101,114,47,46,116,111,114,47,99,111,110,116,114,111,108,95,97,117,116,104,95,99,111,111,107,105,101>>)
    /\ trace[4].res.val.tor_version = <<48,46,52,46,50,46,53>>
    /\ get_protocol_info(uconn[1]) = Some(trace[4].res.val)

\* C35: a reply that read_protocol_info rejects (a status other than 250,
\* fewer than three lines, a wrong first or last line, a repeated record key,
\* a repeated or unknown method, no AUTH METHODS or no VERSION Tor record)
\* is answered with an error, and a call that returns an error leaves the
\* stored info and the flag of the connection as they were: get_protocol_info
\* returns None after it as before.
C35_RejectedLeavesInfo ==
    /\ [](\A i \in 1..Len(trace) :
            (ReadsProtocolInfo(i)
             /\ \E r \in RejectedReplies :
                   trace[i].rcv.lines = r.lines /\ trace[i].rcv.code = r.code) =>
                ~trace[i + 1].res.ok)
    /\ [][(call.pc = "read_protocol_info" /\ call'.pc = "idle"
           /\ ~trace'[Len(trace')].res.ok) =>
              /\ uconn'[1].protocol_info = uconn[1].protocol_info
              /\ uconn'[1].was_protocol_info_loaded = uconn[1].was_protocol_info_loaded
              /\ get_protocol_info(uconn'[1]) = None]_vars

\* a reply with a repeated method was rejected, and the connection holds no
\* info and may load again
C35_Witness ==
    /\ Len(trace) = 4
    /\ ReadsProtocolInfo(3)
    /\ trace[3].rcv.lines = ProtocolInfoLines(<<AuthMethodsRecord(<<"Cookie", "Cookie">>, Some(<<47,99>>)),
                                                VersionRecord(<<48,46,52,46,50,46,53>>)>>)
    /\ trace[4].res = Error("InvalidFormat")
    /\ get_protocol_info(uconn[1]) = None
    /\ ~uconn[1].was_protocol_info_loaded

(***************************************************************************)
(* The SAFECOOKIE procedure.                                               *)
(***************************************************************************)
is_hex_digit(c) == (c >= 48 /\ c <= 57) \/ (c >= 65 /\ c <= 70) \/ (c >= 97 /\ c <= 102)

\* the line has the form AUTHCHALLENGE SERVERHASH=<64 hex> SERVERNONCE=<64 hex>
IsChallengeLine(line) ==
    /\ Len(line) = 166
    /\ SubSeq(line, 1, 25) = <<65,85,84,72,67,72,65,76,76,69,78,71,69,32,83,69,82,86,69,82,72,65,83,72,61>>
    /\ SubSeq(line, 90, 102) = <<32,83,69,82,86,69,82,78,79,78,67,69,61>>
    /\ \A k \in (26..89) \cup (103..166) : is_hex_digit(line[k])

\* the reply is a single-line 250 reply of that form
IsChallengeReply(rcv) ==
    /\ rcv.code = 250
    /\ Len(rcv.lines) = 1
    /\ IsChallengeLine(rcv.lines[1])

\* entry i is the reply that read_auth_challenge_response read: the read
\* after the AUTHCHALLENGE request
ReadsChallenge(i) ==
    /\ i > 1
    /\ trace[i].ev = "read"
    /\ trace[i].rcv.st = "ok"
    /\ trace[i - 1].ev = "write"
    /\ StartsWith(trace[i - 1].bytes, AUTHCHALLENGE_PREFIX)

\* entry i is the return of the call with the error InvalidFormat or
\* InvalidResponseCode
RejectsAt(i) ==
    /\ trace[i].ev = "ret"
    /\ trace[i].res \in {Error("InvalidFormat"), ErrInvalidResponseCode(trace[i - 1].rcv.code)}

\* C36: read_auth_challenge_response accepts a reply only if it is a
\* single-line 250 reply AUTHCHALLENGE SERVERHASH=<64 hex> SERVERNONCE=<64
\* hex>; a 250 reply whose line has other literal parts, another length or
\* other characters at the places of the values is rejected with
\* InvalidFormat.
C36_ChallengeLayout ==
    \A i \in 1..Len(trace) :
        ReadsChallenge(i) =>
            /\ ~IsChallengeReply(trace[i].rcv) => RejectsAt(i + 1)
            /\ (trace[i].rcv.code = 250 /\ ~IsChallengeReply(trace[i].rcv)) =>
                  trace[i + 1].res = Error("InvalidFormat")

\* what the code checks of a 250 reply: one line of 166 bytes with hex digits
\* at the places of the two values
IsAcceptedChallenge(rcv) ==
    /\ rcv.code = 250
    /\ Len(rcv.lines) = 1
    /\ Len(rcv.lines[1]) = 166
    /\ \A k \in (26..89) \cup (103..166) : is_hex_digit(rcv.lines[1][k])

\* the replies are rejected or accepted by the length and the digits alone
C36_LengthAndDigitsOnly ==
    \A i \in 1..Len(trace) :
        ReadsChallenge(i) =>
            IF IsAcceptedChallenge(trace[i].rcv) THEN ~RejectsAt(i + 1)
            ELSE IF trace[i].rcv.code = 250 THEN trace[i + 1].res = Error("InvalidFormat")
            ELSE trace[i + 1].res = ErrInvalidResponseCode(trace[i].rcv.code)

\* the reads and writes of call n, in order
ReadsAndWritesOf(n) == SelectSeq(trace, LAMBDA e : e.n = n /\ e.ev \in {"read", "write"})

\* the reads and writes of a SafeCookie call are, in this order, the write
\* of AUTHCHALLENGE, one read, the write of AUTHENTICATE, one read, or a
\* start of it; a call that returned Ok did all four
SafeCookieOrder(n, accepted(_)) ==
    \A rw \in {ReadsAndWritesOf(n)} :
        /\ Len(rw) <= 4
        /\ \A k \in 1..Len(rw) : rw[k].ev = IF k % 2 = 1 THEN "write" ELSE "read"
        /\ Len(rw) >= 1 => StartsWith(rw[1].bytes, AUTHCHALLENGE_PREFIX)
        /\ Len(rw) >= 3 =>
              /\ StartsWith(rw[3].bytes, AUTHENTICATE_PREFIX)
              /\ rw[2].rcv.st = "ok"
              /\ accepted(rw[2].rcv)
        /\ (Len(rw) >= 2 /\ ~(rw[2].rcv.st = "ok" /\ accepted(rw[2].rcv))) =>
              /\ Len(rw) = 2
              /\ \E i \in 1..Len(trace) :
                    trace[i].n = n /\ trace[i].ev = "ret" /\ ~trace[i].res.ok
        /\ \A i \in 1..Len(trace) :
              (trace[i].n = n /\ trace[i].ev = "ret" /\ trace[i].res.ok) => Len(rw) = 4

\* the calls of authenticate with SafeCookie data
SafeCookieCalls ==
    {trace[i].n : i \in {j \in 1..Len(trace) : trace[j].ev = "call" /\ trace[j].via = "SafeCookie"}}

\* C37: a SafeCookie authentication writes AUTHCHALLENGE, reads one reply,
\* writes AUTHENTICATE and reads one reply, in this order; when the reply to
\* the challenge has another status than 250 or is not of the form
\* AUTHCHALLENGE SERVERHASH=<64 hex> SERVERNONCE=<64 hex>, authenticate
\* fails and writes no AUTHENTICATE.
C37_SafeCookieOrder == \A n \in SafeCookieCalls : SafeCookieOrder(n, IsChallengeReply)

\* the order, with the replies that the code accepts
C37_OrderOfAcceptedReplies == \A n \in SafeCookieCalls : SafeCookieOrder(n, IsAcceptedChallenge)

\* a challenge with other words in its literal parts was answered with an
\* AUTHENTICATE request
C37_AuthenticateAfterOtherWords ==
    \E i \in 2..(Len(trace) - 1) :
        /\ ReadsChallenge(i)
        /\ StartsWith(trace[i].rcv.lines[1], <<65,85,84,72,67,72,65,76,76,65,78,71,69,32,67,76,73,69,78,84,72,65,83,72,61>>)
        /\ trace[i + 1].ev = "write"
        /\ StartsWith(trace[i + 1].bytes, AUTHENTICATE_PREFIX)

(***************************************************************************)
(* Requests and replies in lockstep.                                       *)
(***************************************************************************)
\* the replies that call n read, in order
RepliesReadBy(n) ==
    SelectSeq(trace, LAMBDA e : e.n = n /\ e.ev = "read" /\ e.rcv.st = "ok")

\* entry i is the return of a call that wrote a request and returns Ok,
\* InvalidResponseCode or InvalidFormat, the error not being the one of its
\* event handler
ReturnsAfterRequest(i) ==
    /\ trace[i].ev = "ret"
    /\ \E j \in 1..(i - 1) : trace[j].ev = "write" /\ trace[j].n = trace[i].n
    /\ trace[i].res.ok \/ trace[i].res.err \in {"InvalidResponseCode", "InvalidFormat"}
    /\ ~(trace[i - 1].ev = "event" /\ ~trace[i - 1].res.ok)

\* the call that returns at entry i read exactly one reply with a code other
\* than 650, the last one it read
ReadOneReply(i) ==
    \A replies \in {RepliesReadBy(trace[i].n)} :
        /\ Len(replies) >= 1
        /\ replies[Len(replies)].rcv.code # 650
        /\ \A k \in 1..(Len(replies) - 1) : replies[k].rcv.code = 650

\* C38: every command that wrote a request has read, when it returns Ok,
\* InvalidResponseCode or InvalidFormat, exactly one reply with a code other
\* than 650, so that the next command starts at the reply to its own request.
C38_Lockstep ==
    \A i \in 1..Len(trace) : ReturnsAfterRequest(i) => ReadOneReply(i)

\* the same of the commands that read with recv_response
C38_LockstepOfRecvResponse ==
    \A i \in 1..Len(trace) :
        (ReturnsAfterRequest(i) /\ trace[i].op # "set_conf_multiple") => ReadOneReply(i)

\* set_conf returned InvalidResponseCode(650), and the next command read the
\* reply to the SETCONF request
C38_NextCommandReadsEarlierReply ==
    \E i \in 1..(Len(trace) - 2) :
        /\ trace[i].ev = "ret"
        /\ trace[i].op = "set_conf_multiple"
        /\ trace[i].res = ErrInvalidResponseCode(650)
        /\ \E j \in (i + 1)..Len(trace) :
              /\ trace[j].ev = "read"
              /\ trace[j].n = trace[i].n + 1
              /\ trace[j].rcv.st = "ok"
              /\ trace[j].rcv.code # 650
              /\ trace[i - 1].ev = "read"
              /\ trace[i - 1].rcv.code = 650

(***************************************************************************)
(* receive_data takes one reply from the stream.                           *)
(***************************************************************************)
\* entry i is a receive_data call on Conn that returned a reply
ReturnsReply(i) ==
    /\ trace[i].ev = "read" /\ trace[i].op = "receive_data"
    /\ trace[i].rcv.st = "ok"

\* the bytes the stream held behind the reply that entry i returned
BehindReply(i) == SubSeq(trace[i].bytes, trace[i].rcv.used + 1, Len(trace[i].bytes))

\* the stream after the call of entry i: what the next call found, or what
\* the stream holds now
StreamAfter(i) == IF i < Len(trace) THEN trace[i + 1].bytes ELSE inbox

\* the replies a stream may hold one behind the other
FirstReplies == { <<250, reply>> : reply \in WellFormedReplies }
SecondReplies == { <<250, <<Line(" ", <<79, 75>>)>> >>, <<515, <<Line(" ", <<69>>)>> >> }

\* C39: a successful receive_data takes from the stream the bytes of one
\* reply, the CRLF of its final line being the last of them: the reply is
\* the same on these bytes alone, no shorter prefix holds a reply, and the
\* bytes behind them are what the stream begins with afterwards; a later
\* call returns what a first call returns on the same bytes, and of two
\* replies in the stream the first call returns the first and the second
\* call the second.
C39_OneReplyPerCall ==
    /\ \A i \in 1..Len(trace) : ReturnsReply(i) =>
        \A used \in {trace[i].rcv.used} :
            /\ used >= 2 /\ used <= Len(trace[i].bytes)
            /\ trace[i].bytes[used - 1] = 13 /\ trace[i].bytes[used] = 10
            /\ receive_data(SubSeq(trace[i].bytes, 1, used)) = trace[i].rcv
            /\ \A k \in 0..(used - 1) :
                  receive_data(SubSeq(trace[i].bytes, 1, k)).st = "pending"
            /\ StartsWith(StreamAfter(i), BehindReply(i))
    /\ \A i, j \in 1..Len(trace) :
        (ReturnsReply(i) /\ trace[j].bytes = trace[i].bytes) => trace[j].rcv = trace[i].rcv
    /\ \A i \in 1..(Len(trace) - 1) : \A first \in FirstReplies : \A second \in SecondReplies :
        StartsWith(trace[i].bytes,
                   RenderLines(first[1], first[2]) \o RenderLines(second[1], second[2])) =>
            /\ trace[i].rcv = RecvOk(first[1], Payloads(first[2]),
                                     Len(RenderLines(first[1], first[2])))
            /\ trace[i + 1].rcv = RecvOk(second[1], Payloads(second[2]),
                                         Len(RenderLines(second[1], second[2])))

\* the stream held the reply "250-A", "250 OK" and behind it the reply
\* "515 E": two calls returned the one and then the other
C39_Witness ==
    /\ Len(trace) = 2
    /\ trace[1].bytes = LINE_MID \o LINE_FINAL \o LINE_OTHER_CODE
    /\ trace[1].rcv = RecvOk(250, <<<<65>>, <<79, 75>>>>, 15)
    /\ trace[2].bytes = LINE_OTHER_CODE
    /\ trace[2].rcv = RecvOk(515, <<<<69>>>>, 7)
    /\ inbox = <<>>

=============================================================================
